---- MODULE Spec2Model ----
(***************************************************************************)
(* Emission pipeline of the Strapi-Factus integration: bearer-token        *)
(* lifecycle, transmission with bounded retries, reconciliation of the     *)
(* response into the stored document, and numbering ranges.                *)
(*                                                                         *)
(* The repository holds several revisions of the same services.  The       *)
(* model keeps them apart by an implementation tag:                        *)
(*   sender  "factus-sender"  src/src/api/factus/services/factus-sender.ts *)
(*           "sender"         src/unnamed/part_001                         *)
(*           "credit-note"    src/unnamed/part_000 (sendCreditNote)        *)
(*   auth    "auth"           factus-emission.ts:808  (10 minute lead)     *)
(*           "factus-auth"    factus.auth.ts:34       (5 minute lead)      *)
(***************************************************************************)
EXTENDS Integers, Sequences, FiniteSets, TLC

(***************************************************************************)
(* JavaScript values.  A string is a sequence of one-character strings, so *)
(* that trim() and String(n) are computed and not assumed.                 *)
(***************************************************************************)
Undef == [t |-> "undefined"]
Null == [t |-> "null"]
Str(s) == [t |-> "string", v |-> s]
Num(n) == [t |-> "number", v |-> n]

IsString(x) == x.t = "string"
IsNumber(x) == x.t = "number"

\* an access or refresh token (a non-empty string), named by its issue number
Token(n) == [t |-> "token", v |-> n]
\* a Date, in seconds
Date(n) == [t |-> "date", v |-> n]

\* neither undefined nor null
Present(x) == x.t \notin {"undefined", "null"}

\* JavaScript truthiness of a value
Truthy(x) ==
  CASE x.t = "string" -> Len(x.v) > 0
    [] x.t = "number" -> x.v # 0
    [] x.t \in {"token", "date", "day", "array", "object", "function"} -> TRUE
    [] OTHER -> FALSE

\* a || b
Or(a, b) == IF Truthy(a) THEN a ELSE b

Digit(d) == <<"0", "1", "2", "3", "4", "5", "6", "7", "8", "9">>[d + 1]

RECURSIVE Digits(_)
Digits(n) == IF n < 10 THEN <<Digit(n)>> ELSE Digits(n \div 10) \o <<Digit(n % 10)>>

ToNum(x) == x.v

\* String(x) for a string or a non-negative number
ToStr(x) == IF IsNumber(x) THEN Digits(x.v) ELSE x.v

RECURSIVE TrimLeft(_)
TrimLeft(s) == IF Len(s) > 0 /\ Head(s) = " " THEN TrimLeft(Tail(s)) ELSE s

RECURSIVE TrimRight(_)
TrimRight(s) ==
  IF Len(s) > 0 /\ s[Len(s)] = " " THEN TrimRight(SubSeq(s, 1, Len(s) - 1)) ELSE s

\* String.prototype.trim
Trim(s) == TrimRight(TrimLeft(s))

UpperCase == <<"A", "B", "C", "D", "E", "F", "G", "H", "I", "J", "K", "L", "M", "N", "O", "P", "Q", "R", "S", "T", "U", "V", "W", "X", "Y", "Z", "Ó">>
LowerCase == <<"a", "b", "c", "d", "e", "f", "g", "h", "i", "j", "k", "l", "m", "n", "o", "p", "q", "r", "s", "t", "u", "v", "w", "x", "y", "z", "ó">>

\* String.prototype.toLowerCase, on the letters of UpperCase
ToLowerCase(s) ==
  [i \in 1..Len(s) |->
     IF \E k \in 1..Len(UpperCase) : UpperCase[k] = s[i]
       THEN LowerCase[CHOOSE k \in 1..Len(UpperCase) : UpperCase[k] = s[i]]
       ELSE s[i]]

\* String.prototype.toUpperCase, on the letters of LowerCase
ToUpperCase(s) ==
  [i \in 1..Len(s) |->
     IF \E k \in 1..Len(LowerCase) : LowerCase[k] = s[i]
       THEN UpperCase[CHOOSE k \in 1..Len(LowerCase) : LowerCase[k] = s[i]]
       ELSE s[i]]

\* what every object literal inherits from Object.prototype under a name
\* without capital letters: the constructor and the prototype itself
ObjectConstructor == [t |-> "function", v |-> "Object"]
ObjectPrototype == [t |-> "object", v |-> "Object.prototype"]
S_constructor == <<"c", "o", "n", "s", "t", "r", "u", "c", "t", "o", "r">>
S_proto == <<"_", "_", "p", "r", "o", "t", "o", "_", "_">>

\* table[key] for an object literal given as a sequence of <<key, value>>
Lookup(table, key) ==
  IF \E k \in 1..Len(table) : table[k][1] = key
    THEN table[CHOOSE k \in 1..Len(table) : table[k][1] = key][2]
  ELSE IF key = S_constructor THEN ObjectConstructor
  ELSE IF key = S_proto THEN ObjectPrototype
  ELSE Undef

(***************************************************************************)
(* Response bodies of the external service.  One record shape serves every *)
(* body; a field the body does not carry is Undef.  nested_number and      *)
(* nested_id are data.bill.* for invoices and data.credit_note.* for       *)
(* credit notes, and so are cufe (cufe / cude), qr, public_url and xml_url; *)
(* the flat alternatives of these four are absent from every body drawn.   *)
(* errors is Undef or an array whose elements are Null or objects          *)
(* {message}.                                                              *)
(***************************************************************************)
Arr(s) == [t |-> "array", v |-> s]
ErrObj(m) == [t |-> "object", message |-> m]

EmptyBody ==
  [isNull |-> FALSE, number |-> Undef, nested_number |-> Undef, nested_id |-> Undef,
   id |-> Undef, document_id |-> Undef, uuid |-> Undef,
   cufe |-> Undef, qr |-> Undef, public_url |-> Undef, xml_url |-> Undef,
   message |-> Undef, error |-> Undef, errors |-> Undef]

NullBody == [EmptyBody EXCEPT !.isNull = TRUE]

\* an object carrying the fields of r
Body(r) == [k \in DOMAIN EmptyBody |-> IF k \in DOMAIN r THEN r[k] ELSE EmptyBody[k]]

S_A1 == <<"A", "1">>
S_A1pad == <<" ", "A", "1", " ">>
S_B2 == <<"B", "2">>
S_D4 == <<"D", "4">>
S_cufe == <<"c">>
S_qr == <<"q">>
S_pdf == <<"p">>
S_xml == <<"x">>
S_msg == <<"m">>
S_err == <<"e">>

(***************************************************************************)
(* extractFactusId -- factus-emission.ts:427-455                           *)
(***************************************************************************)
extractFactusId(response) ==
  IF response.isNull THEN Null
  ELSE IF Truthy(response.number) /\ IsString(response.number)
    THEN Str(Trim(ToStr(response.number)))
  ELSE IF Truthy(response.nested_number) /\ IsString(response.nested_number)
    THEN Str(Trim(ToStr(response.nested_number)))
  ELSE IF Truthy(response.nested_id)
    THEN Str(Trim(ToStr(response.nested_id)))
  ELSE IF Truthy(response.id) /\ (IsString(response.id) \/ IsNumber(response.id))
    THEN Str(Trim(ToStr(response.id)))
  ELSE IF Truthy(response.document_id) /\ IsString(response.document_id)
    THEN Str(Trim(response.document_id.v))
  ELSE IF Truthy(response.uuid) /\ IsString(response.uuid)
    THEN Str(Trim(response.uuid.v))
  ELSE Null

(***************************************************************************)
(* Error-message parsers of the senders.  Each returns [throws, msg]:      *)
(* throws is TRUE when the JavaScript raises a TypeError (a property read  *)
(* on null).                                                               *)
(***************************************************************************)
Returns(m) == [throws |-> FALSE, msg |-> m]
Throws == [throws |-> TRUE, msg |-> Undef]

S_unknown == <<"E", "r", "r", "o", "r", " ", "d", "e", "s", "c", "o", "n", "o", "c", "i", "d", "o">>
S_json == <<"{", "}">>

RECURSIVE JoinMessages(_, _)
JoinMessages(elems, sep) ==
  IF Len(elems) = 0 THEN <<>>
  ELSE IF Len(elems) = 1 THEN ToStr(Or(Head(elems).message, Str(S_json)))
  ELSE ToStr(Or(Head(elems).message, Str(S_json))) \o sep \o JoinMessages(Tail(elems), sep)

HasNullElement(arr) == \E i \in 1..Len(arr.v) : arr.v[i] = Null

IsArray(x) == x.t = "array"

\* parseErrorMessage -- factus-sender.ts:720-785 (the same text in part_001)
parseErrorMessage(data) ==
  IF data.isNull THEN Returns(Str(S_unknown))
  ELSE IF Truthy(data.error) /\ IsString(data.error) THEN Returns(data.error)
  ELSE IF Truthy(data.message) /\ IsString(data.message) THEN Returns(data.message)
  ELSE IF IsArray(data.errors) /\ Len(data.errors.v) > 0
    THEN IF HasNullElement(data.errors) THEN Throws
         ELSE Returns(Str(JoinMessages(data.errors.v, <<",", " ">>)))
  ELSE Returns(Str(S_json))

\* extractErrorMessage -- part_000:867-873
extractErrorMessage(response) ==
  IF response.isNull THEN Returns(Str(S_unknown))
  ELSE IF Truthy(response.message) THEN Returns(response.message)
  ELSE IF IsArray(response.errors)
    THEN IF HasNullElement(response.errors) THEN Throws
         ELSE Returns(Str(JoinMessages(response.errors.v, <<";", " ">>)))
  ELSE IF Truthy(response.error) THEN Returns(response.error)
  ELSE Returns(Str(S_json))

(***************************************************************************)
(* Credential Manager.  Time is in seconds.  The configuration record is   *)
(* the single factus-config row: token_acceso, token_expiracion,           *)
(* refresh_token.  envCreds says whether FACTUS_CLIENT_ID and              *)
(* FACTUS_CLIENT_SECRET are set.                                           *)
(***************************************************************************)
LeadAuth == 600
LeadFactusAuth == 300
DefaultExpiresIn == 3600

AuthImpls == {"auth", "factus-auth"}

EmptyConfig == [token_acceso |-> Null, token_expiracion |-> Null, refresh_token |-> Null]

\* answers of POST /oauth/token; n names the tokens an answer would issue
ExpiresInChoices == {Undef, Num(420), Num(900)}
AuthOk(n, exps, refs) ==
  [kind : {"ok"}, status : {200}, access_token : {Token(n)},
   expires_in : exps, refresh_token : refs]
AuthNoToken ==
  [kind |-> "ok", status |-> 200, access_token |-> Undef,
   expires_in |-> Undef, refresh_token |-> Undef]
AuthHttpError(st) ==
  [kind |-> "http", status |-> st, access_token |-> Undef,
   expires_in |-> Undef, refresh_token |-> Undef]
AuthNoResponse ==
  [kind |-> "none", status |-> 0, access_token |-> Undef,
   expires_in |-> Undef, refresh_token |-> Undef]
AuthFailures ==
  {AuthNoToken, AuthNoResponse} \cup {AuthHttpError(st) : st \in {400, 401, 403, 500}}

\* errors: a plain Error carries neither response nor request
PlainError(k) == [t |-> "Error", kind |-> k, hasResponse |-> FALSE, hasRequest |-> FALSE,
                  status |-> 0, body |-> NullBody]
AxiosResponseError(st, b) == [t |-> "AxiosError", kind |-> "http", hasResponse |-> TRUE,
                              hasRequest |-> TRUE, status |-> st, body |-> b]
AxiosNoResponse == [t |-> "AxiosError", kind |-> "network", hasResponse |-> FALSE,
                    hasRequest |-> TRUE, status |-> 0, body |-> NullBody]
NoError == [t |-> "none", kind |-> "none", hasResponse |-> FALSE, hasRequest |-> FALSE,
            status |-> 0, body |-> NullBody]

\* handleAuthError -- factus-emission.ts:1079-1116; the catch block of
\* factus.auth.ts:157-215 has the same cases
handleAuthError(r) ==
  IF r.kind = "http" THEN
    IF r.status = 401 THEN PlainError("authentication")
    ELSE IF r.status = 400 THEN PlainError("bad_request")
    ELSE IF r.status >= 500 THEN PlainError("server")
    ELSE PlainError("other_status")
  ELSE IF r.kind = "none" THEN PlainError("unreachable")
  ELSE PlainError("invalid_response")

\* the row written with the refresh token of the response alone
StoreTokenReplacingRefresh(cfg, r, now) ==
  [token_acceso |-> r.access_token,
   token_expiracion |-> Date(now + ToNum(Or(r.expires_in, Num(DefaultExpiresIn)))),
   refresh_token |-> r.refresh_token]

\* the row written after a successful exchange at time now --
\* factus-emission.ts:882-897 and 941-957, factus.auth.ts:133-151
StoreToken(cfg, r, now) ==
  [token_acceso |-> r.access_token,
   token_expiracion |-> Date(now + ToNum(Or(r.expires_in, Num(DefaultExpiresIn)))),
   refresh_token |-> Or(r.refresh_token, cfg.refresh_token)]

\* the row after an invalidation that only moves the expiry into the past
invalidateTokenExpiryOnly(cfg, now) == [cfg EXCEPT !.token_expiracion = Date(now - 1)]

\* invalidateToken -- factus-emission.ts:1049-1075: the row after the update
invalidateToken(cfg, now) ==
  [cfg EXCEPT !.token_acceso = Null, !.token_expiracion = Date(now - 1)]

\* the cache test -- factus-emission.ts:821-829, factus.auth.ts:64-74
CacheUsable(cfg, now, lead) ==
  /\ Truthy(cfg.token_acceso)
  /\ Truthy(cfg.token_expiracion)
  /\ cfg.token_expiracion.v > now + lead

TokenResult(okv, tok, cfg, reqs, err) ==
  [ok |-> okv, token |-> tok, cfg |-> cfg, reqs |-> reqs, err |-> err]

\* a password grant that drops the cached token when it is refused
PasswordGrantClearing(cfg, now, env, r2, reqs) ==
  IF env /\ r2.kind = "ok" /\ Truthy(r2.access_token)
    THEN TokenResult(TRUE, r2.access_token, StoreToken(cfg, r2, now),
                     Append(reqs, "password"), NoError)
  ELSE TokenResult(FALSE, Null, invalidateToken(cfg, now), Append(reqs, "password"),
                   handleAuthError(r2))

\* password grant -- factus-emission.ts:847-899
PasswordGrant(cfg, now, env, r2, reqs) ==
  IF ~env THEN TokenResult(FALSE, Null, cfg, reqs, PlainError("missing_credentials"))
  ELSE IF r2.kind = "ok" /\ Truthy(r2.access_token)
    THEN TokenResult(TRUE, r2.access_token, StoreToken(cfg, r2, now),
                     Append(reqs, "password"), NoError)
  ELSE TokenResult(FALSE, Null, cfg, Append(reqs, "password"), handleAuthError(r2))

\* getToken with refreshToken -- factus-emission.ts:808-964.  r1 answers the
\* refresh-grant request and r2 the password-grant request, when made.
getTokenAuth(cfg, now, env, r1, r2) ==
  IF CacheUsable(cfg, now, LeadAuth)
    THEN TokenResult(TRUE, cfg.token_acceso, cfg, <<>>, NoError)
  ELSE IF Truthy(cfg.token_acceso) /\ Truthy(cfg.token_expiracion) /\ Truthy(cfg.refresh_token)
    THEN IF r1.kind = "ok" /\ Truthy(r1.access_token)
           THEN TokenResult(TRUE, r1.access_token, StoreToken(cfg, r1, now),
                            <<"refresh">>, NoError)
           ELSE PasswordGrant(cfg, now, env, r2, <<"refresh">>)
  ELSE PasswordGrant(cfg, now, env, r2, <<>>)

\* getToken -- factus.auth.ts:34-216: no refresh grant, no credentials test
getTokenFactusAuth(cfg, now, r2) ==
  IF CacheUsable(cfg, now, LeadFactusAuth)
    THEN TokenResult(TRUE, cfg.token_acceso, cfg, <<>>, NoError)
  ELSE IF r2.kind = "ok" /\ Truthy(r2.access_token)
    THEN TokenResult(TRUE, r2.access_token, StoreToken(cfg, r2, now), <<"password">>, NoError)
  ELSE TokenResult(FALSE, Null, cfg, <<"password">>, handleAuthError(r2))

getToken(impl, cfg, now, env, r1, r2) ==
  IF impl = "auth" THEN getTokenAuth(cfg, now, env, r1, r2)
  ELSE getTokenFactusAuth(cfg, now, r2)

(***************************************************************************)
(* Transmission Sender.  An attempt's answer o is [hasResponse, status,    *)
(* body].  axios resolves a status below 500 (validateStatus) and rejects  *)
(* the others with an AxiosError.  Each sender classifies one attempt as   *)
(* either a returned result or an error caught by the loop, which then     *)
(* goes on to the next attempt.                                            *)
(***************************************************************************)
SenderImpls == {"factus-sender", "sender", "credit-note"}
InvoiceSenders == {"factus-sender", "sender"}

Answer(st, b) == [hasResponse |-> TRUE, status |-> st, body |-> b]
NoAnswer == [hasResponse |-> FALSE, status |-> 0, body |-> NullBody]

Is2xx(st) == st >= 200 /\ st < 300
Is4xx(st) == st >= 400 /\ st < 500

\* what send returns: data is meaningful when hasData, statusCode when hasStatus
SendResult(succ, hasData, data, msg, hasStatus, st) ==
  [success |-> succ, hasData |-> hasData, data |-> data, error |-> msg,
   hasStatus |-> hasStatus, statusCode |-> st]
NoResult == SendResult(FALSE, FALSE, NullBody, Undef, FALSE, 0)

Return(r) == [returns |-> TRUE, result |-> r, error |-> NoError]
Caught(e) == [returns |-> FALSE, result |-> NoResult, error |-> e]

\* a success that loses the body
Success2xxNoData(o) == Return(SendResult(TRUE, FALSE, NullBody, Undef, TRUE, o.status))

Failure4xx(o, m) == Return(SendResult(FALSE, TRUE, o.body, m, TRUE, o.status))
Success2xx(o) == Return(SendResult(TRUE, TRUE, o.body, Undef, TRUE, o.status))

\* the rejected promise of axios.post
Rejected(o) ==
  IF o.hasResponse THEN AxiosResponseError(o.status, o.body) ELSE AxiosNoResponse

\* catch block of sendInvoice -- factus-sender.ts:232-269, part_001:154-187
CatchInvoice(e) ==
  IF e.hasResponse /\ Is4xx(e.status)
    THEN Return(SendResult(FALSE, TRUE, e.body, parseErrorMessage(e.body).msg, TRUE, e.status))
    ELSE Caught(e)

\* one attempt of sendInvoice -- factus-sender.ts:110-230
AttemptFactusSender(o) ==
  IF ~o.hasResponse \/ o.status >= 500 THEN CatchInvoice(Rejected(o))
  ELSE IF Is2xx(o.status) THEN Success2xx(o)
  ELSE IF Is4xx(o.status) THEN
    \* Object.keys(errorData), parseErrorMessage, errorData.errors.forEach
    IF o.body.isNull THEN CatchInvoice(PlainError("TypeError"))
    ELSE IF parseErrorMessage(o.body).throws THEN CatchInvoice(PlainError("TypeError"))
    ELSE IF IsArray(o.body.errors) /\ HasNullElement(o.body.errors)
      THEN CatchInvoice(PlainError("TypeError"))
    ELSE Failure4xx(o, parseErrorMessage(o.body).msg)
  ELSE CatchInvoice(PlainError("server_error"))

\* one attempt of sendInvoice -- part_001:106-152
AttemptSender(o) ==
  IF ~o.hasResponse \/ o.status >= 500 THEN CatchInvoice(Rejected(o))
  ELSE IF Is2xx(o.status) THEN Success2xx(o)
  ELSE IF Is4xx(o.status) THEN
    IF parseErrorMessage(o.body).throws THEN CatchInvoice(PlainError("TypeError"))
    ELSE Failure4xx(o, parseErrorMessage(o.body).msg)
  ELSE CatchInvoice(PlainError("server_error"))

\* catch block of sendCreditNote -- part_000:796-805
CatchCreditNote(e) ==
  IF e.hasResponse /\ e.status < 500
    THEN Return(SendResult(FALSE, TRUE, e.body, extractErrorMessage(e.body).msg, TRUE, e.status))
    ELSE Caught(e)

\* one attempt of sendCreditNote -- part_000:784-795
AttemptCreditNote(o) ==
  IF ~o.hasResponse \/ o.status >= 500 THEN CatchCreditNote(Rejected(o))
  ELSE IF Is2xx(o.status) THEN Success2xx(o)
  ELSE IF extractErrorMessage(o.body).throws THEN CatchCreditNote(PlainError("TypeError"))
  ELSE Failure4xx(o, extractErrorMessage(o.body).msg)

Attempt(impl, o) ==
  CASE impl = "factus-sender" -> AttemptFactusSender(o)
    [] impl = "sender" -> AttemptSender(o)
    [] OTHER -> AttemptCreditNote(o)

\* a getToken failure inside getAuthConfig is thrown into the same catch block
AttemptTokenFailure(impl, e) ==
  IF impl = "credit-note" THEN CatchCreditNote(e) ELSE CatchInvoice(e)

S_exhausted == <<"E", "r", "r", "o", "r", " ", "d", "e", "s", "p", "u", "e", "s">>

\* error.message: the text an error carries, one per kind of error
ErrorText(e) == <<e.t, e.kind, ToString(e.status)>>

\* getErrorMessage -- factus-sender.ts:787-801, part_001:573-578: every error
\* caught by the loop is an Error, so the text is error.message
getErrorMessage(e) == ErrorText(e)

\* `Error despues de N intentos: <message>` (the attempt count is left out)
AfterAttemptsMessage(e) == Str(S_exhausted \o getErrorMessage(e))

ServiceUnavailableMessage(st) ==
  Str(<<"El servicio de Factus no esta disponible", ToString(st)>>)
AuthenticationErrorMessage == Str(<<"Error de autenticacion con Factus">>)
ConnectivityErrorMessage == Str(<<"No se pudo conectar con Factus">>)

\* getFinalErrorMessage -- part_001:197-214
getFinalErrorMessage(e) ==
  IF e.hasResponse /\ e.status \in {502, 503, 504} THEN ServiceUnavailableMessage(e.status)
  ELSE IF e.hasResponse /\ e.status \in {401, 403} THEN AuthenticationErrorMessage
  ELSE IF ~e.hasResponse /\ e.hasRequest THEN ConnectivityErrorMessage
  ELSE AfterAttemptsMessage(e)

\* the return after the loop -- factus-sender.ts:272-275, part_001:190-194,
\* part_000:808
Exhausted(impl, lastError) ==
  CASE impl = "factus-sender" ->
         SendResult(FALSE, FALSE, NullBody, AfterAttemptsMessage(lastError), FALSE, 0)
    [] impl = "sender" ->
         SendResult(FALSE, FALSE, NullBody, getFinalErrorMessage(lastError),
                    lastError.hasResponse, lastError.status)
    [] OTHER ->
         SendResult(FALSE, FALSE, NullBody, Str(getErrorMessage(lastError)), TRUE,
                    IF lastError.hasResponse /\ lastError.status # 0
                      THEN lastError.status ELSE 500)

(***************************************************************************)
(* Numbering ranges -- part_006.  The id of a range is its position in     *)
(* creation order, as the auto-incremented key of the store.               *)
(***************************************************************************)
TiposDocumento == {"factura", "nota_credito"}

S_SETP == <<"S", "E", "T", "P">>

Range(tipo, desde, hasta) ==
  [tipo_documento |-> tipo, activo |-> TRUE, desde |-> desde, hasta |-> hasta,
   consecutivo_actual |-> desde, factus_id |-> Num(21), prefijo |-> Str(S_SETP)]

Max(S) == CHOOSE x \in S : \A y \in S : y <= x

NoRange == [kind |-> "none", id |-> 0]
RangeFound(id) == [kind |-> "range", id |-> id]
RangeExhausted(id) == [kind |-> "exhausted", id |-> id]

\* getActiveRange with the exhaustion test written > instead of >=
getActiveRangeStrict(rs, tipo) ==
  LET found == {i \in 1..Len(rs) : rs[i].tipo_documento = tipo /\ rs[i].activo}
  IN IF found = {} THEN NoRange
     ELSE IF rs[Max(found)].consecutivo_actual > rs[Max(found)].hasta
       THEN RangeExhausted(Max(found))
     ELSE RangeFound(Max(found))

\* getActiveRange -- part_006:18-57: filter, sort by id descending, limit 1
getActiveRange(rs, tipo) ==
  LET found == {i \in 1..Len(rs) : rs[i].tipo_documento = tipo /\ rs[i].activo}
  IN IF found = {} THEN NoRange
     ELSE IF rs[Max(found)].consecutivo_actual >= rs[Max(found)].hasta
       THEN RangeExhausted(Max(found))
     ELSE RangeFound(Max(found))

\* outcome of getNextConsecutive / incrementConsecutive
NoConsecutive == [kind |-> "none", value |-> 0]
Consecutive(n) == [kind |-> "value", value |-> n]
RangeNotFound == [kind |-> "notFound", value |-> 0]
ExceedsRange == [kind |-> "exceeds", value |-> 0]

\* getNextConsecutive that answers the counter after the next increment
getNextConsecutiveIncremented(rs, id) ==
  IF id \notin 1..Len(rs) THEN RangeNotFound
  ELSE IF rs[id].consecutivo_actual > rs[id].hasta THEN ExceedsRange
  ELSE Consecutive(rs[id].consecutivo_actual + 1)

\* getNextConsecutive -- part_006:65-90
getNextConsecutive(rs, id) ==
  IF id \notin 1..Len(rs) THEN RangeNotFound
  ELSE IF rs[id].consecutivo_actual > rs[id].hasta THEN ExceedsRange
  ELSE Consecutive(rs[id].consecutivo_actual)

\* the update of incrementConsecutive -- part_006:110-126: the counter read
\* by findOne plus one is written back, whatever the row holds by then
WriteConsecutive(rs, id, read) == [rs EXCEPT ![id].consecutivo_actual = read + 1]

(***************************************************************************)
(* Numbering of an invoice payload -- mapper.ts:74-98, 192-196.  cfg is    *)
(* the global configuration row with its default range id, counter and     *)
(* prefix.                                                                 *)
(***************************************************************************)
S_FV == <<"F", "V">>

Numbering(src, rangeId, consecutivo, prefijo) ==
  [source |-> src, numbering_range_id |-> rangeId, consecutivo |-> consecutivo,
   prefijo |-> prefijo]
NoNumbering == Numbering("none", Undef, Undef, Undef)

\* defaults that ignore the configuration
NumberingLiterals(cfg) == Numbering("config", Num(8), Num(8), Str(S_FV))

\* the catch block and the else branch -- mapper.ts:89-97
NumberingDefaults(cfg) ==
  Numbering("config", Or(cfg.numbering_range_id, Num(8)), Or(cfg.consecutivo_actual, Num(8)),
            Or(cfg.prefijo_factura, Str(S_FV)))

\* the values taken from the range row and the counter -- mapper.ts:86-88
NumberingFromRange(row, next) ==
  Numbering("range", row.factus_id, Num(next.value), row.prefijo)

\* invoice.numero_factura || `${prefijo}-${consecutivo}` -- mapper.ts:192
referenceCode(numero, n) ==
  Or(numero, Str(ToStr(n.prefijo) \o <<"-">> \o ToStr(n.consecutivo)))

(***************************************************************************)
(* Documents.  A stored document is [kind, found, client, items, invoice,  *)
(* motivo] plus the fields reconciliation writes: estado_local, factus_id, *)
(* intentos_envio, errores (errores_factus of an invoice,                  *)
(* errores_validacion of a credit note), factus_bill_id, cude (factus_cude *)
(* of an invoice), qr (factus_qr, qr_code), url_pdf (url_pdf, public_url)  *)
(* and url_xml.  A message is a string of one element, its text.           *)
(***************************************************************************)
Obj(r) == [k \in DOMAIN r \cup {"t"} |-> IF k = "t" THEN "object" ELSE r[k]]

Msg(text) == Str(<<text>>)

E_notFound == Msg("Factura no encontrada")
E_client == Msg("La factura debe tener un cliente asociado")
E_items == Msg("La factura debe tener al menos un item")
E_ncNotFound == Msg("Nota credito no encontrada")
E_ncInvoice == Msg("La nota credito debe referenciar una factura")
E_ncUnissued == Msg("La factura referenciada no ha sido emitida a Factus")
E_ncItems == Msg("La nota credito debe tener al menos un item")
E_ncCantidad == Msg("La cantidad debe ser mayor a 0")
E_ncPrecio == Msg("El precio unitario debe ser mayor a 0")
E_ncMotivo == Msg("Debe especificar un motivo o concepto de correccion")
E_ncDocumento == Msg("El cliente debe tener numero de documento")
E_ncEmail == Msg("El cliente debe tener email")

Validation(errors) == [valid |-> Len(errors) = 0, errors |-> errors]

Push(cond, e) == IF cond THEN <<e>> ELSE <<>>

\* validateInvoice without the test on the items
validateInvoiceNoItems(d) ==
  IF ~d.found THEN Validation(<<E_notFound>>)
  ELSE Validation(Push(~Truthy(d.client), E_client))

\* validateInvoice -- mapper.ts:342-393
validateInvoice(d) ==
  IF ~d.found THEN Validation(<<E_notFound>>)
  ELSE Validation(Push(~Truthy(d.client), E_client)
                    \o Push(Len(d.items.v) = 0, E_items))

RECURSIVE ItemErrors(_)
ItemErrors(items) ==
  IF Len(items) = 0 THEN <<>>
  ELSE Push(~Truthy(Head(items).cantidad) \/ Head(items).cantidad.v <= 0, E_ncCantidad)
         \o Push(~Truthy(Head(items).precio_unitario) \/ Head(items).precio_unitario.v <= 0,
                 E_ncPrecio)
         \o ItemErrors(Tail(items))

\* validateCreditNote -- part_000:268-336
validateCreditNote(d) ==
  IF ~d.found THEN Validation(<<E_ncNotFound>>)
  ELSE Validation(
    (IF ~Truthy(d.invoice) THEN <<E_ncInvoice>>
     ELSE Push(~Truthy(d.invoice.factus_bill_id) /\ ~Truthy(d.invoice.factus_id), E_ncUnissued))
    \o (IF Len(d.items.v) = 0 THEN <<E_ncItems>> ELSE ItemErrors(d.items.v))
    \o Push(~Truthy(d.motivo) /\ ~Truthy(d.concepto_correccion_id), E_ncMotivo)
    \o (IF Truthy(d.client)
          THEN Push(~Truthy(d.client.numero_documento), E_ncDocumento)
                 \o Push(~Truthy(d.client.email), E_ncEmail)
          ELSE <<>>))

validate(d) == IF d.kind = "invoice" THEN validateInvoice(d) ELSE validateCreditNote(d)

\* the outcome of a mapper: a payload, or a thrown Error
Mapped(payload) == [throws |-> FALSE, payload |-> payload]
MapThrows == [throws |-> TRUE, payload |-> Null]

(***************************************************************************)
(* Dates.  Day(n) is the date-only string 'YYYY-MM-DD' of day n since the  *)
(* epoch.  An instant is a number of seconds since the epoch; tz is the    *)
(* offset of the server's local time from UTC, in seconds.                 *)
(***************************************************************************)
Day(n) == [t |-> "day", v |-> n]
DaySeconds == 24 * 3600

\* new Date(value): a date-only string is midnight UTC of that day, a Date
\* or a date-time string is its instant
ParseDate(d) == IF d.t = "day" THEN d.v * DaySeconds ELSE d.v

\* the local calendar day of an instant: getFullYear / getMonth / getDate
LocalDay(t, tz) == (t + tz) \div DaySeconds

\* setHours(0, 0, 0, 0): midnight, local time, of the instant's local day
LocalMidnight(t, tz) == LocalDay(t, tz) * DaySeconds - tz

\* formatDate -- mapper.ts:334-340
formatDate(t, tz) == Day(LocalDay(t, tz))

\* the dates of the payload -- mapper.ts:166-189
mapDates(d, now, tz) ==
  LET today == LocalMidnight(now, tz)
      invoiceDate0 == LocalMidnight(ParseDate(d.fecha_emision), tz)
      invoiceDate == IF invoiceDate0 > today THEN today ELSE invoiceDate0
      dueDate0 == LocalMidnight(IF Truthy(d.fecha_vencimiento)
                                  THEN ParseDate(d.fecha_vencimiento)
                                  ELSE invoiceDate, tz)
      dueDate == IF dueDate0 < invoiceDate THEN invoiceDate + 30 * DaySeconds ELSE dueDate0
  IN [issue_date |-> formatDate(invoiceDate, tz),
      payment_due_date |-> formatDate(dueDate, tz)]

\* the key of a line in uniqueItemsMap -- mapper.ts:47: item.product?.id || item.id
ProductKey(item) == Or(IF item.product = Null THEN Undef ELSE item.product.id, item.id)

\* the deduplication loop -- mapper.ts:45-58: lines in order, one entry per
\* key in insertion order, a quantity that is 0 or missing counted as 1
RECURSIVE uniqueItems(_, _)
uniqueItems(items, acc) ==
  IF items = <<>> THEN acc
  ELSE LET item == Head(items)
           hit == {i \in 1..Len(acc) : ProductKey(acc[i]) = ProductKey(item)}
       IN uniqueItems(Tail(items),
            IF hit # {}
              THEN LET i == CHOOSE j \in hit : TRUE
                   IN [acc EXCEPT ![i].cantidad =
                         Num(ToNum(Or(@, Num(1))) + ToNum(Or(item.cantidad, Num(1))))]
              ELSE Append(acc, [item EXCEPT !.cantidad = Or(@, Num(1))]))

(***************************************************************************)
(* Code tables of the invoice mapper -- mapper.ts:227-332.  A lookup       *)
(* returns a value or raises a TypeError: calling toLowerCase or           *)
(* toUpperCase on a value that is not a string.                            *)
(***************************************************************************)
TypeError == [t |-> "TypeError"]

S_Efectivo == <<"E", "f", "e", "c", "t", "i", "v", "o">>
S_venta == <<"v", "e", "n", "t", "a">>
S_UND == <<"U", "N", "D">>
S_Bogota == <<"1", "1", "0", "0", "1">>
S_juridica == <<"j", "u", "r", "i", "d", "i", "c", "a">>

\* getMunicipalityIdForFactus -- mapper.ts:227-255
getMunicipalityIdForFactus(codigoDane) ==
  LET municipalityMap ==
        <<<<<<"1", "1", "0", "0", "1">>, Str(<<"1", "4", "9">>)>>,
        <<<<"0", "5", "0", "0", "1">>, Str(<<"1", "9">>)>>,
        <<<<"7", "6", "0", "0", "1">>, Str(<<"1", "0", "9", "6">>)>>,
        <<<<"0", "8", "0", "0", "1">>, Str(<<"7", "8">>)>>,
        <<<<"1", "3", "0", "0", "1">>, Str(<<"1", "5", "0">>)>>,
        <<<<"5", "4", "0", "0", "1">>, Str(<<"2", "2", "3">>)>>,
        <<<<"6", "8", "0", "0", "1">>, Str(<<"6", "8", "9">>)>>,
        <<<<"6", "6", "0", "0", "1">>, Str(<<"6", "2", "4">>)>>,
        <<<<"4", "7", "0", "0", "1">>, Str(<<"5", "2", "0">>)>>,
        <<<<"7", "3", "0", "0", "1">>, Str(<<"8", "3", "8">>)>>,
        <<<<"5", "2", "0", "0", "1">>, Str(<<"2", "0", "7">>)>>,
        <<<<"1", "7", "0", "0", "1">>, Str(<<"4", "8", "3">>)>>,
        <<<<"5", "0", "0", "0", "1">>, Str(<<"5", "6", "8">>)>>,
        <<<<"2", "0", "0", "0", "1">>, Str(<<"1", "0", "9", "5">>)>>>>
      factusMunicipalityId ==
        IF IsString(codigoDane) THEN Lookup(municipalityMap, codigoDane.v) ELSE Undef
  IN IF ~Truthy(factusMunicipalityId) THEN Str(<<"1", "4", "9">>) ELSE factusMunicipalityId

\* mapTipoDocumento -- mapper.ts:261-271
mapTipoDocumento(tipo) ==
  LET tipos ==
        <<<<<<"C", "C">>, Str(<<"3">>)>>,
        <<<<"N", "I", "T">>, Str(<<"6">>)>>,
        <<<<"C", "E">>, Str(<<"5">>)>>,
        <<<<"T", "I">>, Str(<<"2">>)>>,
        <<<<"P", "P">>, Str(<<"4">>)>>,
        <<<<"P", "E", "P">>, Str(<<"7">>)>>>>
  IN Or(IF IsString(tipo) THEN Lookup(tipos, tipo.v) ELSE Undef, Str(<<"3">>))

\* mapTipoPersona -- mapper.ts:273-276
mapTipoPersona(tipo) ==
  IF ~Present(tipo) THEN Str(<<"2">>)
  ELSE IF ~IsString(tipo) THEN TypeError
  ELSE IF ToLowerCase(tipo.v) = S_juridica THEN Str(<<"1">>) ELSE Str(<<"2">>)

\* mapRegimenFiscal -- mapper.ts:278-280
mapRegimenFiscal(regimen) == Str(<<"2", "1">>)

\* mapFormaPago -- mapper.ts:282-292
mapFormaPago(formaPago) ==
  LET formas ==
        <<<<<<"c", "o", "n", "t", "a", "d", "o">>, Str(<<"1">>)>>,
        <<<<"c", "r", "e", "d", "i", "t", "o">>, Str(<<"2">>)>>,
        <<<<"e", "f", "e", "c", "t", "i", "v", "o">>, Str(<<"1">>)>>,
        <<<<"t", "a", "r", "j", "e", "t", "a">>, Str(<<"1">>)>>,
        <<<<"t", "r", "a", "n", "s", "f", "e", "r", "e", "n", "c", "i", "a">>, Str(<<"1">>)>>>>
  IN IF ~IsString(formaPago) THEN TypeError
     ELSE Or(Lookup(formas, ToLowerCase(formaPago.v)), Str(<<"1">>))

\* mapMedioPago -- mapper.ts:294-304
mapMedioPago(medioPago) ==
  LET medios ==
        <<<<<<"e", "f", "e", "c", "t", "i", "v", "o">>, Str(<<"1", "0">>)>>,
        <<<<"c", "r", "e", "d", "i", "t", "o">>, Str(<<"1">>)>>,
        <<<<"t", "a", "r", "j", "e", "t", "a">>, Str(<<"4", "8">>)>>,
        <<<<"t", "r", "a", "n", "s", "f", "e", "r", "e", "n", "c", "i", "a">>, Str(<<"4", "2">>)>>,
        <<<<"c", "h", "e", "q", "u", "e">>, Str(<<"2", "0">>)>>>>
  IN IF ~IsString(medioPago) THEN TypeError
     ELSE Or(Lookup(medios, ToLowerCase(medioPago.v)), Str(<<"1", "0">>))

\* mapTipoOperacion -- mapper.ts:306-315
mapTipoOperacion(tipo) ==
  LET operaciones ==
        <<<<<<"v", "e", "n", "t", "a">>, Num(10)>>,
        <<<<"e", "x", "p", "o", "r", "t", "a", "c", "i", "o", "n">>, Num(20)>>,
        <<<<"c", "r", "e", "d", "i", "t", "o">>, Num(10)>>,
        <<<<"c", "o", "n", "t", "a", "d", "o">>, Num(10)>>>>
  IN IF ~IsString(tipo) THEN TypeError
     ELSE Or(Lookup(operaciones, ToLowerCase(tipo.v)), Num(10))

\* mapUnidadMedida -- mapper.ts:317-332
mapUnidadMedida(unidad) ==
  LET unidades ==
        <<<<<<"U", "N", "D">>, Num(70)>>,
        <<<<"K", "G">>, Num(28)>>,
        <<<<"L", "B">>, Num(14)>>,
        <<<<"M", "T">>, Num(59)>>,
        <<<<"M", "2">>, Num(26)>>,
        <<<<"M", "3">>, Num(11)>>,
        <<<<"L", "T">>, Num(94)>>,
        <<<<"G", "L">>, Num(21)>>,
        <<<<"H", "R">>, Num(57)>>,
        <<<<"D", "I", "A">>, Num(404)>>>>
  IN IF ~IsString(unidad) THEN TypeError
     ELSE Or(Lookup(unidades, ToUpperCase(unidad.v)), Num(70))

\* the codes of the payload -- mapper.ts:112-114, 126-128, 135, 198-201
mapCodes(d, items) ==
  [municipality_id |-> getMunicipalityIdForFactus(Or(d.client.ciudad_codigo, Str(S_Bogota))),
   legal_organization_id |-> mapTipoPersona(d.client.tipo_persona),
   tribute_id |-> mapRegimenFiscal(d.client.regimen_fiscal),
   identification_document_id |-> mapTipoDocumento(d.client.tipo_documento),
   payment_form |-> mapFormaPago(Or(d.forma_pago, Str(S_Efectivo))),
   payment_method_code |-> mapMedioPago(Or(d.medio_pago, Or(d.forma_pago, Str(S_Efectivo)))),
   operation_type |-> mapTipoOperacion(d.tipo_operacion),
   unit_measure_id |-> [i \in 1..Len(items) |->
                          mapUnidadMedida(Or(items[i].product.unidad_medida, Str(S_UND)))]]

\* some lookup of the payload raised
CodesThrow(c) ==
  \/ \E k \in DOMAIN c \ {"unit_measure_id"} : c[k] = TypeError
  \/ \E i \in 1..Len(c.unit_measure_id) : c.unit_measure_id[i] = TypeError

\* mapInvoiceToFactus -- mapper.ts:12-223, the fields of the payload whose
\* validity depends on the document.
\* An item without product raises a TypeError at product.unidad_medida.
mapInvoiceToFactus(d, now, tz) ==
  IF ~d.found \/ ~Truthy(d.client) \/ Len(d.items.v) = 0 THEN MapThrows
  ELSE LET items == uniqueItems(d.items.v, <<>>)
       IN IF \E i \in 1..Len(items) : items[i].product = Null THEN MapThrows
          ELSE IF CodesThrow(mapCodes(d, items)) THEN MapThrows
          ELSE Mapped(Obj([
            email |-> d.client.email,
            codes |-> mapCodes(d, items),
            issue_date |-> mapDates(d, now, tz).issue_date,
            payment_due_date |-> mapDates(d, now, tz).payment_due_date,
            items |-> [i \in 1..Len(items) |->
                         Obj([name |-> items[i].product.nombre,
                              quantity |-> Or(items[i].cantidad, Num(1)),
                              price |-> Or(items[i].precio_unitario, Num(0))])]]))

\* conceptMap -- part_000:356-376
conceptMap ==
  <<<<<<"d", "e", "v", "o", "l", "u", "c", "i", "o", "n">>, Num(1)>>,
    <<<<"d", "e", "v", "o", "l", "u", "c", "i", "ó", "n">>, Num(1)>>,
    <<<<"d", "e", "v", "o", "l", "u", "c", "i", "o", "n", "_", "p", "a", "r", "c", "i", "a", "l">>, Num(1)>>,
    <<<<"a", "n", "u", "l", "a", "c", "i", "o", "n">>, Num(2)>>,
    <<<<"a", "n", "u", "l", "a", "c", "i", "ó", "n">>, Num(2)>>,
    <<<<"a", "n", "u", "l", "a", "c", "i", "o", "n", "_", "f", "a", "c", "t", "u", "r", "a">>, Num(2)>>,
    <<<<"r", "e", "b", "a", "j", "a">>, Num(3)>>,
    <<<<"d", "e", "s", "c", "u", "e", "n", "t", "o">>, Num(3)>>,
    <<<<"d", "e", "s", "c", "u", "e", "n", "t", "o", "_", "p", "a", "r", "c", "i", "a", "l">>, Num(3)>>,
    <<<<"d", "e", "s", "c", "u", "e", "n", "t", "o", "_", "t", "o", "t", "a", "l">>, Num(3)>>,
    <<<<"a", "j", "u", "s", "t", "e", "_", "p", "r", "e", "c", "i", "o">>, Num(4)>>,
    <<<<"a", "j", "u", "s", "t", "e">>, Num(4)>>,
    <<<<"o", "t", "r", "o", "s">>, Num(5)>>,
    <<<<"o", "t", "r", "o">>, Num(5)>>,
    <<<<"1">>, Num(1)>>,
    <<<<"2">>, Num(2)>>,
    <<<<"3">>, Num(3)>>,
    <<<<"4">>, Num(4)>>,
    <<<<"5">>, Num(5)>>>>

\* String(concepto || '')
ConceptString(concepto) == IF Truthy(concepto) THEN ToStr(concepto) ELSE <<>>

\* mapConceptoCorreccion -- part_000:351-380
mapConceptoCorreccion(concepto) ==
  IF IsNumber(concepto) /\ concepto.v >= 1 /\ concepto.v <= 5 THEN concepto
  ELSE Or(Lookup(conceptMap, Trim(ToLowerCase(ConceptString(concepto)))), Num(2))

\* mapCreditNoteToFactus -- part_000:91-263
mapCreditNoteToFactus(d) ==
  IF ~d.found \/ ~Truthy(d.invoice) \/ Len(d.items.v) = 0 THEN MapThrows
  ELSE IF ~Truthy(d.invoice.factus_bill_id) THEN MapThrows
  ELSE Mapped(Obj([
    email |-> IF Truthy(d.client) THEN d.client.email ELSE Undef,
    correction_concept_code |->
      mapConceptoCorreccion(Or(d.concepto_correccion_id, d.motivo)),
    items |-> [i \in 1..Len(d.items.v) |->
                 Obj([name |-> Msg("Producto"),
                      quantity |-> d.items.v[i].cantidad,
                      price |-> d.items.v[i].precio_unitario])]]))

\* validatePayload of the invoice sender -- factus-sender.ts:807-860
validatePayloadInvoice(payload) ==
  /\ Truthy(payload.email)
  /\ Len(payload.items) > 0
  /\ \A i \in 1..Len(payload.items) :
       /\ Truthy(payload.items[i].name)
       /\ payload.items[i].quantity.v > 0
       /\ payload.items[i].price.v > 0

\* validatePayload of the credit-note sender -- part_000:846-865
validatePayloadCreditNote(payload) ==
  /\ Len(payload.items) > 0
  /\ \A i \in 1..Len(payload.items) :
       /\ Truthy(payload.items[i].name)
       /\ Truthy(payload.items[i].quantity) /\ payload.items[i].quantity.v > 0
       /\ payload.items[i].price.v > 0

map(d, now, tz) ==
  IF d.kind = "invoice" THEN mapInvoiceToFactus(d, now, tz) ELSE mapCreditNoteToFactus(d)

validatePayload(kind, payload) ==
  IF kind = "invoice" THEN validatePayloadInvoice(payload)
  ELSE validatePayloadCreditNote(payload)

(***************************************************************************)
(* Reconciliation.  Each update is the read of intentos_envio followed by  *)
(* one write; Written is the row after the write, UpdateThrows a TypeError *)
(* raised between the two (factusResponse.status on a null body).          *)
(***************************************************************************)
E_noId == Msg("No se pudo extraer el ID de documento de Factus")
E_sendInvoice == Msg("Error enviando factura")
E_sendCreditNote == Msg("Error enviando nota credito")
E_pending == Msg("Existe una factura anterior pendiente de envio a la DIAN")
E_typeError == Msg("Cannot read properties of null")
E_mapping == Msg("Error de mapeo")
E_token == Msg("Error de autenticacion")
E_database == Msg("Error de base de datos")
E_invalid == Msg("Documento invalido")
E_payload == Msg("Payload invalido")

Written(d) == [throws |-> FALSE, doc |-> d]
UpdateThrows(d) == [throws |-> TRUE, doc |-> d]

\* an attempt counter that is written back as it was read
KeepIntentos(read) == Num(ToNum(Or(read, Num(0))))

\* (current.intentos_envio || 0) + 1 -- factus-emission.ts:657, part_000:662
NextIntentos(read) == Num(ToNum(Or(read, Num(0))) + 1)

\* a key of updateData: an undefined value is not sent to the store
Assign(old, new) == IF new = Undef THEN old ELSE new

\* a failure branch that also clears the stored identifier
invoiceFailureClearing(d, read, msg) ==
  [d EXCEPT !.intentos_envio = NextIntentos(read),
            !.estado_local = "Rechazada",
            !.factus_id = Null,
            !.errores = msg]

\* a failure branch that records the document as submitted
invoiceFailureSubmitted(d, read, msg) ==
  [d EXCEPT !.intentos_envio = NextIntentos(read),
            !.estado_local = "Enviada",
            !.errores = msg]

\* the failure branch of updateInvoiceStatus -- factus-emission.ts:696-699
invoiceFailure(d, read, msg) ==
  [d EXCEPT !.intentos_envio = NextIntentos(read),
            !.estado_local = "Rechazada",
            !.errores = msg]

\* updateInvoiceStatus -- factus-emission.ts:640-711
updateInvoiceStatus(d, read, response, status, msg) ==
  IF status = "exitosa" THEN
    IF response.isNull THEN UpdateThrows(d)
    ELSE LET factusDocumentId == extractFactusId(response)
             factusBillId == IF Truthy(response.nested_id) THEN response.nested_id ELSE Undef
         IN IF Truthy(factusDocumentId) \/ Truthy(factusBillId)
              THEN Written([d EXCEPT !.intentos_envio = NextIntentos(read),
                                     !.estado_local = "Enviada",
                                     !.factus_id = factusDocumentId,
                                     !.factus_bill_id = Assign(@, factusBillId),
                                     !.cude = Assign(@, response.cufe),
                                     !.qr = Assign(@, response.qr),
                                     !.url_pdf = Assign(@, response.public_url),
                                     !.url_xml = Assign(@, response.xml_url),
                                     !.errores = Null])
              ELSE Written([d EXCEPT !.intentos_envio = NextIntentos(read),
                                     !.estado_local = "Rechazada",
                                     !.factus_id = Null,
                                     !.errores = E_noId])
  ELSE Written(invoiceFailure(d, read, msg))

\* updateCreditNoteStatus -- part_000:646-728
updateCreditNoteStatus(d, read, response, status, msg) ==
  IF status = "exitosa" THEN
    IF response.isNull THEN UpdateThrows(d)
    ELSE LET factusDocumentId ==
               IF Truthy(response.number) THEN Str(Trim(ToStr(response.number)))
               ELSE IF Truthy(response.nested_number)
                 THEN Str(Trim(ToStr(response.nested_number)))
               ELSE Undef
             Keep(old, new) == IF Truthy(new) THEN new ELSE old
         IN Written([d EXCEPT !.intentos_envio = NextIntentos(read),
                              !.estado_local = "Enviada",
                              !.factus_id = Keep(@, factusDocumentId),
                              !.factus_bill_id = Keep(@, response.nested_id),
                              !.cude = Keep(@, response.cufe),
                              !.url_pdf = Keep(@, response.public_url),
                              !.qr = Keep(@, response.qr)])
  ELSE Written([d EXCEPT !.intentos_envio = NextIntentos(read),
                         !.estado_local = "Error",
                         !.errores = msg])

updateStatus(d, read, response, status, msg) ==
  IF d.kind = "invoice" THEN updateInvoiceStatus(d, read, response, status, msg)
  ELSE updateCreditNoteStatus(d, read, response, status, msg)

\* toString() of an optional value
OptToString(x) == IF x.t \in {"undefined", "null"} THEN Undef ELSE Str(ToStr(x))

\* the number emitCreditNote returns -- part_000:598-602
creditNoteNumber(data) ==
  Or(data.nested_number,
     Or(data.number,
        Or(OptToString(data.nested_id),
           Or(data.document_id, OptToString(data.id)))))

\* the number an emission returns -- factus-emission.ts:603, part_000:598-602
emitNumber(kind, data) ==
  IF kind = "invoice" THEN extractFactusId(data) ELSE creditNoteNumber(data)

\* what emit returns
EmitResult(succ, err, num) == [success |-> succ, error |-> err, number |-> num]
NoEmitResult == EmitResult(FALSE, Undef, Undef)

\* the message persisted after a failed send -- factus-emission.ts:569-590,
\* part_000:581-587
sendFailureMessage(kind, r) ==
  IF kind = "invoice"
    THEN IF r.hasStatus /\ r.statusCode = 409 THEN E_pending
         ELSE Or(r.error, E_sendInvoice)
    ELSE Or(r.error, E_sendCreditNote)

(***************************************************************************)
(* Bounds of the model                                                     *)
(***************************************************************************)
MaxRetries == 2
MaxIssued == 2
MaxTicks == 2
TickSeconds == 300
MaxEmits == 3
MaxSequential == 2
MaxFaults == 1
MaxRanges == 2
MaxOverrun == 2
MaxLines == 3
MaxDaysApart == 2
MaxConcept == 6

Procs == {"p1", "p2"}

(***************************************************************************)
(* Answers of the submission endpoint                                      *)
(***************************************************************************)
SuccessBodies ==
  { Body([nested_number |-> Str(S_B2), nested_id |-> Num(7)]),
    Body([number |-> Str(S_A1pad), nested_number |-> Str(S_B2),
          cufe |-> Str(S_cufe), qr |-> Str(S_qr),
          public_url |-> Str(S_pdf), xml_url |-> Str(S_xml)]),
    Body([nested_id |-> Num(7)]),
    Body([document_id |-> Str(S_D4)]),
    EmptyBody,
    NullBody }

ErrorBodies ==
  { Body([message |-> Str(S_msg)]),
    Body([errors |-> Arr(<<ErrObj(Str(S_err))>>)]),
    Body([errors |-> Arr(<<Null>>)]),
    EmptyBody,
    NullBody }

SubmitAnswers ==
  {Answer(200, b) : b \in SuccessBodies}
    \cup {Answer(400, b) : b \in ErrorBodies}
    \cup {Answer(304, EmptyBody), Answer(500, EmptyBody), Answer(503, EmptyBody), NoAnswer}

\* the answers drawn for the submissions of an emission
EmitAnswers ==
  {Answer(200, b) : b \in { Body([number |-> Str(S_A1pad), nested_number |-> Str(S_B2),
          cufe |-> Str(S_cufe), qr |-> Str(S_qr),
          public_url |-> Str(S_pdf), xml_url |-> Str(S_xml)]),
                            Body([nested_id |-> Num(7)]),
                            EmptyBody,
                            NullBody }}
    \cup {Answer(400, b) : b \in { Body([message |-> Str(S_msg)]),
                                   Body([errors |-> Arr(<<Null>>)]) }}
    \cup {Answer(500, EmptyBody), NoAnswer}

\* the class of an answer, as the claims name it
AnswerClass(o) ==
  IF ~o.hasResponse THEN "none"
  ELSE IF Is2xx(o.status) THEN "2xx"
  ELSE IF Is4xx(o.status) THEN "4xx"
  ELSE IF o.status >= 500 THEN "5xx"
  ELSE "3xx"

(***************************************************************************)
(* State                                                                   *)
(***************************************************************************)
VARIABLES
  setup,    \* [sender, auth, envCreds, tz]: the implementations wired together
            \* and the UTC offset of the server's time zone, in seconds
  doc,      \* the stored document
  config,   \* the factus-config row (credential cache)
  clock,    \* current time, seconds
  issued,   \* number of tokens the auth endpoint has issued
  faults,   \* number of document-store failures during the current emission
  emits,    \* number of emit calls started
  proc,     \* per call chain: position and locals
  tokenLog, \* last getToken call: what it saw and what it returned
  ranges,   \* the numbering ranges, in creation order: ranges[id]
  rangeLog  \* the getActiveRange call just made on these ranges, and its result

vars == <<setup, doc, config, clock, issued, faults, emits, proc, tokenLog, ranges, rangeLog>>

NoRangeLog ==
  [called |-> FALSE, tipo |-> "factura", result |-> NoRange,
   nextId |-> 0, next |-> NoConsecutive]

IdleProc ==
  [pc |-> "idle", op |-> "none", retries |-> 0, attempt |-> 0, lastError |-> NoError,
   nSubmit |-> 0, nToken |-> 0, answers |-> <<>>, waits |-> <<>>, received |-> NullBody,
   sendResult |-> NoResult, denied |-> FALSE, afterDenied |-> 0,
   start |-> Num(0), nWrites |-> 0, read |-> Undef,
   updCtx |-> "none", updStatus |-> "none", updResp |-> NullBody, updMsg |-> Undef,
   updThrew |-> FALSE, sendOk |-> FALSE, sendData |-> NullBody,
   mapped |-> MapThrows,
   rangeId |-> 0, rangeRead |-> 0, rangeBefore |-> 0, rangeResult |-> NoConsecutive,
   numbering |-> NoNumbering, sent |-> FALSE,
   entry |-> "none", startStatus |-> "none",
   tokRead |-> EmptyConfig, tokAnswer |-> AuthNoResponse,
   tokResult |-> TokenResult(FALSE, Null, EmptyConfig, <<>>, NoError),
   validation |-> Validation(<<>>), emitResult |-> NoEmitResult]

NoTokenLog ==
  [called |-> FALSE, invalidated |-> FALSE, prior |-> Undef, answer |-> AuthNoResponse, cfg |-> EmptyConfig, clock |-> 0, issued |-> 0,
   result |-> TokenResult(FALSE, Null, EmptyConfig, <<>>, NoError)]

NoDoc == [kind |-> "none"]

\* the answers the auth endpoint can give now: every one of them to a direct
\* getToken call, and these to the getToken calls made inside a transmission
AuthAnswers ==
  (IF issued < MaxIssued
     THEN AuthOk(issued + 1, ExpiresInChoices, {Undef, Token(issued + 1)}) ELSE {})
    \cup AuthFailures
SendAuthAnswers ==
  (IF issued < MaxIssued THEN AuthOk(issued + 1, {Undef, Num(420)}, {Undef}) ELSE {})
    \cup {AuthHttpError(401), AuthHttpError(403), AuthNoResponse}

\* effect of one getToken call with answers r1, r2 on the shared state
TokenCall(r1, r2) == getToken(setup.auth, config, clock, setup.envCreds, r1, r2)

ApplyTokenCall(res) ==
  /\ config' = res.cfg
  /\ issued' = IF res.ok /\ Len(res.reqs) > 0 THEN issued + 1 ELSE issued

\* bookkeeping of the requests one call chain sends: their number, whether the
\* auth endpoint has answered one of them 401 or 403, and how many requests
\* were sent after that
IsDenied(r) == r.kind = "http" /\ r.status \in {401, 403}

RECURSIVE TokenRequests(_, _, _, _)
TokenRequests(pr, reqs, r1, r2) ==
  IF Len(reqs) = 0 THEN pr
  ELSE TokenRequests(
         [pr EXCEPT !.nToken = @ + 1,
                    !.afterDenied = IF pr.denied THEN @ + 1 ELSE @,
                    !.denied = @ \/ IsDenied(IF Head(reqs) = "refresh" THEN r1 ELSE r2)],
         Tail(reqs), r1, r2)

SubmitRequest(pr, o) ==
  [pr EXCEPT !.nSubmit = @ + 1,
             !.afterDenied = IF pr.denied THEN @ + 1 ELSE @,
             !.answers = IF pr.op = "send" THEN Append(@, AnswerClass(o)) ELSE @,
             !.received = IF pr.op = "send" THEN o.body ELSE @]

TokenFailed(pr) ==
  [pr EXCEPT !.answers = IF pr.op = "send" THEN Append(@, "token") ELSE @]

(***************************************************************************)
(* send(payload, {retries}): called directly, or by an emission            *)
(***************************************************************************)
SendCall(p) ==
  /\ proc[p].pc = "idle"
  /\ \E r \in 0..MaxRetries :
       proc' = [proc EXCEPT ![p] = [IdleProc EXCEPT !.pc = "send_token", !.op = "send",
                                                    !.retries = r]]
  /\ UNCHANGED <<setup, doc, config, clock, issued, faults, emits, tokenLog, ranges, rangeLog>>

\* the loop going on after a caught error without counting the attempt
AfterCaughtUncounted(pr, e) == [pr EXCEPT !.lastError = e, !.pc = "send_token"]

\* the loop's exit test after a caught error: attempt++ and attempt <= retries
AfterCaught(pr, e) ==
  IF pr.attempt + 1 <= pr.retries
    THEN [pr EXCEPT !.attempt = pr.attempt + 1, !.lastError = e, !.pc = "send_token"]
    ELSE [pr EXCEPT !.lastError = e, !.pc = "sent",
                    !.sendResult = Exhausted(setup.sender, e)]

AfterAttempt(pr, c) ==
  IF c.returns THEN [pr EXCEPT !.pc = "sent", !.sendResult = c.result]
  ELSE AfterCaught(pr, c.error)

\* the default of the retryDelay option, milliseconds
RetryDelay == 2000

\* sleep(retryDelay * attempt) before every attempt but the first --
\* factus-sender.ts:93-96, part_001:96-99, part_000:779
Sleep(pr) ==
  IF pr.attempt > 0 THEN [pr EXCEPT !.waits = Append(@, RetryDelay * pr.attempt)] ELSE pr

\* the backoff sleep and getAuthConfig of one attempt
SendToken(p) ==
  /\ proc[p].pc = "send_token"
  /\ \E r1, r2 \in SendAuthAnswers :
       LET res == TokenCall(r1, r2)
           pr == TokenRequests(Sleep(proc[p]), res.reqs, r1, r2)
       IN /\ ApplyTokenCall(res)
          /\ proc' = [proc EXCEPT ![p] =
               IF res.ok THEN [pr EXCEPT !.pc = "send_post"]
               ELSE AfterAttempt(TokenFailed(pr), AttemptTokenFailure(setup.sender, res.err))]
  /\ UNCHANGED <<setup, doc, clock, faults, emits, tokenLog, ranges, rangeLog>>

\* axios.post of one attempt and its classification
SendPost(p) ==
  /\ proc[p].pc = "send_post"
  /\ \E o \in IF proc[p].op = "send" THEN SubmitAnswers ELSE EmitAnswers :
       proc' = [proc EXCEPT ![p] =
         AfterAttempt(SubmitRequest(proc[p], o), Attempt(setup.sender, o))]
  /\ UNCHANGED <<setup, doc, config, clock, issued, faults, emits, tokenLog, ranges, rangeLog>>

\* the caller takes the result of a direct send
SendReturn(p) ==
  /\ proc[p].pc = "sent"
  /\ proc[p].op = "send"
  /\ proc' = [proc EXCEPT ![p] = IdleProc]
  /\ UNCHANGED <<setup, doc, config, clock, issued, faults, emits, tokenLog, ranges, rangeLog>>

Tick ==
  /\ clock < MaxTicks * TickSeconds
  /\ clock' = clock + TickSeconds
  /\ UNCHANGED <<setup, doc, config, issued, faults, emits, proc, tokenLog, ranges, rangeLog>>

InitShared ==
  /\ config = EmptyConfig
  /\ clock = 0
  /\ issued = 0
  /\ faults = 0
  /\ emits = 0
  /\ tokenLog = NoTokenLog
  /\ proc = [p \in Procs |-> IdleProc]
  /\ ranges = <<>>
  /\ rangeLog = NoRangeLog

InitSend ==
  /\ InitShared
  /\ doc = NoDoc
  /\ setup \in [sender : SenderImpls, auth : AuthImpls, envCreds : BOOLEAN, tz : {0}]

NextSend ==
  \/ SendCall("p1")
  \/ SendToken("p1")
  \/ SendPost("p1")
  \/ SendReturn("p1")

SpecSend == InitSend /\ [][NextSend]_vars

(***************************************************************************)
(* The documents an emission is run on                                     *)
(***************************************************************************)
ProductOf(k) ==
  Obj([id |-> Num(k), nombre |-> Str(<<"Producto", k>>), unidad_medida |-> Undef])
Product == ProductOf(1)
Item(prod, cant, precio) ==
  Obj([id |-> Num(1), product |-> prod, cantidad |-> cant, precio_unitario |-> precio])
Line(id, prod, cant, precio) == [Item(prod, cant, precio) EXCEPT !.id = Num(id)]
Client(email) ==
  Obj([email |-> email, numero_documento |-> Msg("900123"), tipo_documento |-> Undef,
       tipo_persona |-> Undef, regimen_fiscal |-> Undef, ciudad_codigo |-> Undef])
InvoiceRef(fid, bill) == Obj([factus_id |-> fid, factus_bill_id |-> bill])

NewDoc(kind, found, client, items, invoice, motivo) ==
  [kind |-> kind, found |-> found, client |-> client, items |-> Arr(items),
   invoice |-> invoice, motivo |-> motivo, concepto_correccion_id |-> Undef,
   tipo_operacion |-> Str(S_venta), forma_pago |-> Undef, medio_pago |-> Undef,
   estado_local |-> "Borrador", factus_id |-> Null, intentos_envio |-> Num(0),
   errores |-> Null, fecha_emision |-> Day(0), fecha_vencimiento |-> Undef,
   numero_factura |-> Undef,
   factus_bill_id |-> Null, cude |-> Null, qr |-> Null, url_pdf |-> Null, url_xml |-> Null]

S_devolucion == <<"d", "e", "v", "o", "l", "u", "c", "i", "o", "n">>

GoodItem == Item(Product, Num(2), Num(100))
GoodClient == Client(Msg("a@b.co"))
GoodRef == InvoiceRef(Str(S_A1), Num(7))

Invoices ==
  { NewDoc("invoice", FALSE, Null, <<>>, Null, Undef),
    NewDoc("invoice", TRUE, Null, <<GoodItem>>, Null, Undef),
    NewDoc("invoice", TRUE, GoodClient, <<>>, Null, Undef),
    NewDoc("invoice", TRUE, Client(Undef), <<GoodItem>>, Null, Undef),
    NewDoc("invoice", TRUE, GoodClient, <<Item(Null, Num(1), Num(100))>>, Null, Undef),
    NewDoc("invoice", TRUE, GoodClient, <<Item(Product, Num(1), Num(0))>>, Null, Undef),
    NewDoc("invoice", TRUE, GoodClient, <<GoodItem>>, Null, Undef) }

CreditNotes ==
  { NewDoc("credit-note", FALSE, Null, <<>>, Null, Undef),
    NewDoc("credit-note", TRUE, Null, <<GoodItem>>, Null, Str(S_devolucion)),
    NewDoc("credit-note", TRUE, Null, <<>>, GoodRef, Str(S_devolucion)),
    NewDoc("credit-note", TRUE, Null, <<GoodItem>>, InvoiceRef(Null, Null), Str(S_devolucion)),
    NewDoc("credit-note", TRUE, Null, <<GoodItem>>, InvoiceRef(Str(S_A1), Null),
           Str(S_devolucion)),
    NewDoc("credit-note", TRUE, Client(Undef), <<GoodItem>>, GoodRef, Undef),
    NewDoc("credit-note", TRUE, Null, <<GoodItem>>, GoodRef, Str(S_devolucion)) }

(***************************************************************************)
(* emit(documentId) -- emitInvoice factus-emission.ts:489-638,             *)
(* emitCreditNote part_000:515-641                                         *)
(***************************************************************************)
EmitRetries == 2

EmitCall(p) ==
  /\ proc[p].pc = "idle"
  /\ emits < MaxEmits
  /\ emits' = emits + 1
  /\ proc' = [proc EXCEPT ![p] = [IdleProc EXCEPT !.pc = "emit_prepare", !.op = "emit",
                                                  !.start = doc.intentos_envio]]
  /\ UNCHANGED <<setup, doc, config, clock, issued, faults, tokenLog, ranges, rangeLog>>

Done(pr, result) == [pr EXCEPT !.pc = "emit_done", !.emitResult = result]

Update(pr, ctx, status, resp, msg) ==
  [pr EXCEPT !.pc = "upd_read", !.updCtx = ctx, !.updStatus = status,
             !.updResp = resp, !.updMsg = msg]

\* the catch block of emit
EmitCatch(pr, msg) == Update(pr, "catch", "fallida", EmptyBody, msg)

\* steps 1 to 4: validate, read, map, validate the payload
EmitPrepare(p) ==
  /\ proc[p].pc = "emit_prepare"
  /\ LET v == validate(doc)
         m == map(doc, clock, setup.tz)
         pr == [proc[p] EXCEPT !.validation = v]
     IN proc' = [proc EXCEPT ![p] =
          IF ~v.valid THEN Done(pr, EmitResult(FALSE, E_invalid, Undef))
          ELSE IF m.throws THEN EmitCatch(pr, E_mapping)
          ELSE IF ~validatePayload(doc.kind, m.payload)
            THEN Done(pr, EmitResult(FALSE, E_payload, Undef))
          ELSE IF doc.kind = "invoice" THEN [pr EXCEPT !.pc = "emit_token"]
          ELSE [pr EXCEPT !.pc = "send_token", !.retries = EmitRetries]]
  /\ UNCHANGED <<setup, doc, config, clock, issued, faults, emits, tokenLog, ranges, rangeLog>>

\* step 5 of emitInvoice: authService.getToken() before the send
EmitToken(p) ==
  /\ proc[p].pc = "emit_token"
  /\ \E r1, r2 \in SendAuthAnswers :
       LET res == TokenCall(r1, r2)
           pr == TokenRequests(proc[p], res.reqs, r1, r2)
       IN /\ ApplyTokenCall(res)
          /\ proc' = [proc EXCEPT ![p] =
               IF res.ok THEN [pr EXCEPT !.pc = "send_token", !.retries = EmitRetries]
               ELSE EmitCatch(pr, E_token)]
  /\ UNCHANGED <<setup, doc, clock, faults, emits, tokenLog, ranges, rangeLog>>

\* the send has returned to emit
EmitSent(p) ==
  /\ proc[p].pc = "sent"
  /\ proc[p].op = "emit"
  /\ LET r == proc[p].sendResult
         pr == [proc[p] EXCEPT !.sendResult = NoResult, !.lastError = NoError,
                               !.attempt = 0, !.retries = 0, !.sent = TRUE,
                               !.waits = <<>>,
                               !.sendOk = r.success, !.sendData = r.data]
     IN proc' = [proc EXCEPT ![p] =
          IF r.success THEN Update(pr, "success", "exitosa", r.data, Undef)
          ELSE Update(pr, "failure", "fallida",
                      IF r.hasData /\ ~r.data.isNull THEN r.data ELSE EmptyBody,
                      sendFailureMessage(doc.kind, r))]
  /\ UNCHANGED <<setup, doc, config, clock, issued, faults, emits, tokenLog, ranges, rangeLog>>

\* findOne of the update: the current intentos_envio
UpdateRead(p) ==
  /\ proc[p].pc = "upd_read"
  /\ proc' = [proc EXCEPT ![p] = [@ EXCEPT !.pc = "upd_write", !.read = doc.intentos_envio]]
  /\ UNCHANGED <<setup, doc, config, clock, issued, faults, emits, tokenLog, ranges, rangeLog>>

\* emit taking a status update that has thrown for one that has returned
AfterUpdateUnchecked(pr, threw, msg) ==
  IF pr.updCtx = "success"
    THEN Done([pr EXCEPT !.updThrew = @ \/ threw],
              EmitResult(TRUE, Undef, emitNumber(doc.kind, pr.updResp)))
    ELSE Done([pr EXCEPT !.updThrew = @ \/ threw], EmitResult(FALSE, pr.updMsg, Undef))

\* what emit does once the update has returned or thrown
AfterUpdate(pr, threw, msg) ==
  IF threw
    THEN IF pr.updCtx = "catch"
           THEN Done([pr EXCEPT !.updThrew = TRUE], EmitResult(FALSE, pr.updMsg, Undef))
         ELSE EmitCatch([pr EXCEPT !.updThrew = TRUE], msg)
    ELSE IF pr.updCtx = "success"
           THEN Done(pr, EmitResult(TRUE, Undef, emitNumber(doc.kind, pr.updResp)))
           ELSE Done(pr, EmitResult(FALSE, pr.updMsg, Undef))

\* the rest of the update: build updateData and write it, or fail
UpdateWrite(p) ==
  /\ proc[p].pc = "upd_write"
  /\ \E fault \in IF faults < MaxFaults THEN BOOLEAN ELSE {FALSE} :
       LET pr == proc[p]
           u == updateStatus(doc, pr.read, pr.updResp, pr.updStatus, pr.updMsg)
       IN IF fault
            THEN /\ faults' = faults + 1
                 /\ doc' = doc
                 /\ proc' = [proc EXCEPT ![p] = AfterUpdate(pr, TRUE, E_database)]
          ELSE IF u.throws
            THEN /\ UNCHANGED <<faults, doc>>
                 /\ proc' = [proc EXCEPT ![p] = AfterUpdate(pr, TRUE, E_typeError)]
          ELSE /\ faults' = faults
               /\ doc' = u.doc
               /\ proc' = [proc EXCEPT ![p] =
                    AfterUpdate([pr EXCEPT !.nWrites = @ + 1], FALSE, Undef)]
  /\ UNCHANGED <<setup, config, clock, issued, emits, tokenLog, ranges, rangeLog>>

EmitReturn(p) ==
  /\ proc[p].pc = "emit_done"
  /\ proc' = [proc EXCEPT ![p] = IdleProc]
  /\ faults' = 0
  /\ UNCHANGED <<setup, doc, config, clock, issued, emits, tokenLog, ranges, rangeLog>>

\* validate(documentId) called directly
ValidateCall(p) ==
  /\ proc[p].pc = "idle"
  /\ proc' = [proc EXCEPT ![p] = [IdleProc EXCEPT !.pc = "validated", !.op = "validate",
                                                  !.validation = validate(doc)]]
  /\ UNCHANGED <<setup, doc, config, clock, issued, faults, emits, tokenLog, ranges, rangeLog>>

ValidateReturn(p) ==
  /\ proc[p].pc = "validated"
  /\ proc' = [proc EXCEPT ![p] = IdleProc]
  /\ UNCHANGED <<setup, doc, config, clock, issued, faults, emits, tokenLog, ranges, rangeLog>>

Init ==
  /\ InitShared
  /\ doc \in Invoices \cup CreditNotes
  /\ setup \in [sender : SenderImpls, auth : AuthImpls, envCreds : {TRUE}, tz : {0}]
  /\ doc.kind = "invoice" <=> setup.sender \in InvoiceSenders

Next ==
  \/ emits < MaxSequential /\ EmitCall("p1")
  \/ EmitPrepare("p1")
  \/ EmitToken("p1")
  \/ SendToken("p1")
  \/ SendPost("p1")
  \/ EmitSent("p1")
  \/ UpdateRead("p1")
  \/ UpdateWrite("p1")
  \/ EmitReturn("p1")
  \/ ValidateCall("p1")
  \/ ValidateReturn("p1")

Spec == Init /\ [][Next]_vars

(***************************************************************************)
(* Two emit calls for the same document running concurrently.  Each awaits *)
(* findOne and update separately inside the status update, so the other    *)
(* call may run between the two.  The documents are those that pass        *)
(* validation and fail in the mapper: the emission goes from its catch     *)
(* block to the status update without a request to Factus.                 *)
(***************************************************************************)
FailInMapper == {d \in Invoices \cup CreditNotes : validate(d).valid /\ map(d, 0, 0).throws}

InitConc ==
  /\ InitShared
  /\ doc \in FailInMapper
  /\ setup \in [sender : {"factus-sender", "credit-note"}, auth : {"auth"}, envCreds : {TRUE}, tz : {0}]
  /\ doc.kind = "invoice" <=> setup.sender \in InvoiceSenders

NextConc ==
  \E p \in Procs :
    \/ EmitCall(p)
    \/ EmitPrepare(p)
    \/ UpdateRead(p)
    \/ UpdateWrite(p)
    \/ EmitReturn(p)

SpecConc == InitConc /\ [][NextConc]_vars

\* C13: the persisted attempt counter of a document never decreases, in any
\* interleaving of emit calls on that document.
C13_AttemptsNeverDecrease ==
  [][ToNum(doc'.intentos_envio) >= ToNum(doc.intentos_envio)]_vars

\* the call that read the counter at 0 has written 1 over the 2 that the
\* second emission of the other call chain had written
C13_StaleAttemptWritten ==
  /\ proc["p1"].pc = "emit_done" /\ proc["p1"].nWrites = 1
  /\ proc["p1"].start = Num(0)
  /\ proc["p2"].pc = "emit_done" /\ proc["p2"].nWrites = 1
  /\ proc["p2"].start = Num(1)
  /\ doc.intentos_envio = Num(1)

(***************************************************************************)
(* getToken() called directly, as the controllers do.  tokenLog keeps what *)
(* the call saw (the row, the time, the tokens issued so far) and what it  *)
(* returned.                                                               *)
(***************************************************************************)
GetTokenCall ==
  /\ \E r1, r2 \in AuthAnswers :
       LET res == TokenCall(r1, r2)
       IN /\ ApplyTokenCall(res)
          /\ tokenLog' = [called |-> TRUE, invalidated |-> FALSE,
                          prior |-> IF tokenLog.invalidated THEN tokenLog.cfg.token_acceso
                                    ELSE Undef,
                          answer |-> IF Len(res.reqs) = 0 THEN AuthNoResponse
                                     ELSE IF res.reqs[Len(res.reqs)] = "refresh" THEN r1
                                     ELSE r2,
                          cfg |-> config, clock |-> clock,
                          issued |-> issued, result |-> res]
  /\ UNCHANGED <<setup, doc, clock, faults, emits, proc, ranges, rangeLog>>

InitAuth ==
  /\ InitShared
  /\ doc = NoDoc
  /\ setup \in [sender : {"sender"}, auth : AuthImpls, envCreds : BOOLEAN, tz : {0}]

NextAuth ==
  \/ GetTokenCall
  \/ Tick

SpecAuth == InitAuth /\ [][NextAuth]_vars

\* a token is cached and its stored expiry is more than 10 minutes after now
CachedFor10Minutes(cfg, now) ==
  /\ Present(cfg.token_acceso)
  /\ Present(cfg.token_expiracion)
  /\ cfg.token_expiracion.v > now + 10 * 60

\* C8: getToken returns the cached token without contacting the auth endpoint
\* exactly when a token is cached and its expiry is more than 10 minutes
\* after the current time; otherwise a token it returns was issued during
\* the call.
C8_CacheLeadTime ==
  tokenLog.called =>
    IF CachedFor10Minutes(tokenLog.cfg, tokenLog.clock)
      THEN /\ tokenLog.result.ok
           /\ tokenLog.result.token = tokenLog.cfg.token_acceso
           /\ Len(tokenLog.result.reqs) = 0
      ELSE tokenLog.result.ok =>
             /\ Len(tokenLog.result.reqs) > 0
             /\ tokenLog.result.token = Token(tokenLog.issued + 1)

\* getToken of factus.auth.ts returned, without a request, a cached token
\* that expires 7 minutes after the call
C8_ReturnedTokenExpiringSoon ==
  /\ tokenLog.called
  /\ setup.auth = "factus-auth"
  /\ tokenLog.result.ok
  /\ Len(tokenLog.result.reqs) = 0
  /\ tokenLog.cfg.token_expiracion = Date(tokenLog.clock + 420)

(***************************************************************************)
(* Operations on the numbering ranges -- part_006                          *)
(***************************************************************************)
\* the ranges created: invoices are numbered 1 to 5, credit notes 4 to 5
SampleBounds(tipo) == IF tipo = "factura" THEN <<1, 5>> ELSE <<4, 5>>

\* createRange -- part_006:322-351
createRange ==
  /\ Len(ranges) < MaxRanges
  /\ \E tipo \in TiposDocumento :
       ranges' = Append(ranges, Range(tipo, SampleBounds(tipo)[1], SampleBounds(tipo)[2]))
  /\ rangeLog' = NoRangeLog
  /\ UNCHANGED <<setup, doc, config, clock, issued, faults, emits, proc, tokenLog>>

\* deactivateRange -- part_006:358-373
deactivateRange ==
  /\ \E id \in 1..Len(ranges) :
       /\ ranges[id].activo
       /\ ranges' = [ranges EXCEPT ![id].activo = FALSE]
  /\ rangeLog' = NoRangeLog
  /\ UNCHANGED <<setup, doc, config, clock, issued, faults, emits, proc, tokenLog>>

\* incrementConsecutive -- part_006:98-132, a call no other call interleaves
incrementConsecutive ==
  /\ \E id \in 1..Len(ranges) :
       /\ ranges[id].consecutivo_actual < ranges[id].hasta + MaxOverrun
       /\ ranges' = WriteConsecutive(ranges, id, ranges[id].consecutivo_actual)
  /\ rangeLog' = NoRangeLog
  /\ UNCHANGED <<setup, doc, config, clock, issued, faults, emits, proc, tokenLog>>

\* getActiveRange(tipo) called on the current ranges
GetActiveRangeCall ==
  /\ \E tipo \in TiposDocumento :
       rangeLog' = [NoRangeLog EXCEPT !.called = TRUE, !.tipo = tipo,
                                      !.result = getActiveRange(ranges, tipo)]
  /\ UNCHANGED <<setup, doc, config, clock, issued, faults, emits, proc, tokenLog, ranges>>

\* getNextConsecutive(rangeId) called on the current ranges
GetNextConsecutiveLogged ==
  /\ \E id \in 1..(Len(ranges) + 1) :
       rangeLog' = [NoRangeLog EXCEPT !.nextId = id,
                                      !.next = getNextConsecutive(ranges, id)]
  /\ UNCHANGED <<setup, doc, config, clock, issued, faults, emits, proc, tokenLog, ranges>>

InitRange ==
  /\ InitShared
  /\ doc = NoDoc
  /\ setup = [sender |-> "sender", auth |-> "auth", envCreds |-> TRUE, tz |-> 0]

NextRange ==
  \/ createRange
  \/ deactivateRange
  \/ incrementConsecutive
  \/ GetActiveRangeCall
  \/ GetNextConsecutiveLogged

SpecRange == InitRange /\ [][NextRange]_vars

\* the ranges of a type flagged active, by id
ActiveOfType(rs, tipo) ==
  {i \in 1..Len(rs) : rs[i].activo /\ rs[i].tipo_documento = tipo}

\* C10: getActiveRange(type) raises the exhaustion error exactly when the most
\* recently created active range of the type has counter >= upper bound;
\* otherwise it returns that range, never an inactive one or one of another type.
C10_ExhaustionExactly ==
  (rangeLog.called /\ ActiveOfType(ranges, rangeLog.tipo) # {}) =>
    LET sel == CHOOSE i \in ActiveOfType(ranges, rangeLog.tipo) :
                 \A j \in ActiveOfType(ranges, rangeLog.tipo) : j <= i
    IN /\ rangeLog.result.kind \in {"exhausted", "range"}
       /\ rangeLog.result.kind = "exhausted"
            <=> ranges[sel].consecutivo_actual >= ranges[sel].hasta
       /\ rangeLog.result.kind = "range" =>
            /\ rangeLog.result.id = sel
            /\ ranges[rangeLog.result.id].activo
            /\ ranges[rangeLog.result.id].tipo_documento = rangeLog.tipo

\* the exhaustion error for a range with bounds [1,5] and counter 5, while an
\* older range of the type still has numbers
C10_ExhaustedAtUpperBound ==
  /\ rangeLog.called
  /\ rangeLog.result = RangeExhausted(2)
  /\ ranges[2].desde = 1
  /\ ranges[2].hasta = 5
  /\ ranges[2].consecutivo_actual = 5
  /\ ranges[1].activo
  /\ ranges[1].tipo_documento = rangeLog.tipo
  /\ ranges[1].consecutivo_actual < ranges[1].hasta

\* every change of a counter is a rise by exactly 1
CounterRisesByOne ==
  \A id \in 1..Len(ranges) :
    ranges'[id].consecutivo_actual # ranges[id].consecutivo_actual
      => ranges'[id].consecutivo_actual = ranges[id].consecutivo_actual + 1

C12_CounterWithinBounds ==
  \A id \in 1..Len(ranges) :
    /\ ranges[id].desde <= ranges[id].consecutivo_actual
    /\ ranges[id].consecutivo_actual <= ranges[id].hasta + 1

\* a range with bounds [4,5] incremented three times: its counter is 7
C12_CounterPastUpperBound ==
  /\ Len(ranges) >= 1
  /\ ranges[1].desde = 4
  /\ ranges[1].hasta = 5
  /\ ranges[1].consecutivo_actual = 7

(***************************************************************************)
(* Concurrent calls of the numbering service.  incrementConsecutive awaits *)
(* findOne and then update; another call may run between the two.          *)
(* rangeBefore is the counter the row held when getNextConsecutive read it *)
(* or just before incrementConsecutive updated it.                         *)
(***************************************************************************)
\* incrementConsecutive -- part_006:101-110: findOne and newConsecutive
IncrementRead(p) ==
  /\ proc[p].pc = "idle"
  /\ \E id \in 1..Len(ranges) :
       /\ ranges[id].consecutivo_actual < ranges[id].hasta + MaxOverrun
       /\ proc' = [proc EXCEPT ![p] =
            [@ EXCEPT !.pc = "inc_write", !.op = "increment", !.rangeId = id,
                      !.rangeRead = ranges[id].consecutivo_actual]]
  /\ UNCHANGED <<setup, doc, config, clock, issued, faults, emits, tokenLog, ranges, rangeLog>>

\* incrementConsecutive -- part_006:118-128: update and return
IncrementWrite(p) ==
  /\ proc[p].pc = "inc_write"
  /\ ranges' = WriteConsecutive(ranges, proc[p].rangeId, proc[p].rangeRead)
  /\ proc' = [proc EXCEPT ![p] =
       [@ EXCEPT !.pc = "inc_done",
                 !.rangeBefore = ranges[proc[p].rangeId].consecutivo_actual,
                 !.rangeResult = Consecutive(proc[p].rangeRead + 1)]]
  /\ UNCHANGED <<setup, doc, config, clock, issued, faults, emits, tokenLog, rangeLog>>

\* getNextConsecutive(rangeId) -- part_006:65-90
GetNextConsecutiveCall(p) ==
  /\ proc[p].pc = "idle"
  /\ \E id \in 1..(Len(ranges) + 1) :
       proc' = [proc EXCEPT ![p] =
         [@ EXCEPT !.pc = "next_done", !.op = "next", !.rangeId = id,
                   !.rangeBefore = IF id \in 1..Len(ranges)
                                     THEN ranges[id].consecutivo_actual ELSE 0,
                   !.rangeResult = getNextConsecutive(ranges, id)]]
  /\ UNCHANGED <<setup, doc, config, clock, issued, faults, emits, tokenLog, ranges, rangeLog>>

\* the caller has the answer of its numbering call
RangeReturn(p) ==
  /\ proc[p].pc \in {"inc_done", "next_done"}
  /\ proc' = [proc EXCEPT ![p] = IdleProc]
  /\ UNCHANGED <<setup, doc, config, clock, issued, faults, emits, tokenLog, ranges, rangeLog>>

InitAlloc ==
  /\ InitShared
  /\ doc = NoDoc
  /\ setup = [sender |-> "sender", auth |-> "auth", envCreds |-> TRUE, tz |-> 0]

NextAlloc ==
  \/ createRange
  \/ \E p \in Procs :
       \/ IncrementRead(p)
       \/ IncrementWrite(p)
       \/ GetNextConsecutiveCall(p)
       \/ RangeReturn(p)

SpecAlloc == InitAlloc /\ [][NextAlloc]_vars

(***************************************************************************)
(* Properties of an emission.  sendOk and sendData are what the send       *)
(* returned to it, start the attempt counter when it was called, nWrites   *)
(* the number of writes it made to the document.                           *)
(***************************************************************************)
EmitDone == proc["p1"].pc = "emit_done"

FailedStatuses == {"Rechazada", "Error"}

IdentifierFields(b) ==
  <<b.number, b.nested_number, b.nested_id, b.id, b.document_id, b.uuid>>

NoIdentifier(b) ==
  b.isNull \/ \A i \in 1..6 : ~Present(IdentifierFields(b)[i])

\* the identifier the priority order of the specification selects
FirstPresent(b) ==
  IF NoIdentifier(b) THEN Null
  ELSE LET i == CHOOSE k \in 1..6 :
                  /\ Present(IdentifierFields(b)[k])
                  /\ \A j \in 1..(k - 1) : ~Present(IdentifierFields(b)[j])
       IN Str(Trim(ToStr(IdentifierFields(b)[i])))

\* C3: when the send reported success and the response carries none of the
\* identifier fields, the reconciled document is Failed with a diagnostic
\* message and not Submitted, for invoices and for credit notes.
C3_NoIdentifierIsFailed ==
  (EmitDone /\ proc["p1"].sendOk /\ NoIdentifier(proc["p1"].sendData)
     /\ proc["p1"].nWrites > 0)
    => /\ doc.estado_local \in FailedStatuses
       /\ Truthy(doc.errores)

\* a credit note reconciled as Enviada from a success response without identifier
C3_CreditNoteEnviadaWithoutId ==
  /\ EmitDone
  /\ doc.kind = "credit-note"
  /\ proc["p1"].sendOk
  /\ proc["p1"].sendData = EmptyBody
  /\ proc["p1"].nWrites = 1
  /\ doc.estado_local = "Enviada"

\* C4: in every reachable state a document whose local status is Enviada
\* (Submitted) has a non-null factus_id.
C4_EnviadaHasFactusId ==
  doc.estado_local = "Enviada" => Present(doc.factus_id)

\* a stored document that is Enviada with factus_id null
C4_EnviadaWithNullId ==
  /\ doc.estado_local = "Enviada"
  /\ doc.factus_id = Null
  /\ proc["p1"].pc = "idle"

\* C5: an emission that returns success = false has persisted the document as
\* Failed with an error message and has incremented its attempt counter by one.
C5_FailurePersisted ==
  (EmitDone /\ ~proc["p1"].emitResult.success)
    => /\ doc.estado_local \in FailedStatuses
       /\ Truthy(doc.errores)
       /\ doc.intentos_envio = Num(proc["p1"].start.v + 1)

\* an emission that failed validation and returned without any write
C5_InvalidNotPersisted ==
  /\ EmitDone
  /\ ~proc["p1"].emitResult.success
  /\ ~proc["p1"].validation.valid
  /\ proc["p1"].nWrites = 0
  /\ doc.estado_local = "Borrador"
  /\ doc.intentos_envio = Num(0)

ItemsError == IF doc.kind = "invoice" THEN E_items ELSE E_ncItems

\* C6: validate on a document without line items returns valid = false with
\* the at-least-one-item error, and neither validate nor an emission that
\* fails validation sends a token request or a submission request.
C6_ValidationIsLocal ==
  /\ (proc["p1"].pc = "validated" /\ doc.found /\ Len(doc.items.v) = 0)
       => /\ ~proc["p1"].validation.valid
          /\ \E i \in 1..Len(proc["p1"].validation.errors) :
               proc["p1"].validation.errors[i] = ItemsError
  /\ proc["p1"].pc = "validated"
       => proc["p1"].nToken = 0 /\ proc["p1"].nSubmit = 0
  /\ (proc["p1"].op = "emit" /\ ~validate(doc).valid /\ proc["p1"].pc # "emit_prepare")
       => /\ proc["p1"].pc = "emit_done"
          /\ ~proc["p1"].emitResult.success
          /\ proc["p1"].nToken = 0 /\ proc["p1"].nSubmit = 0

\* validate has answered for an invoice that has a client and no items
C6_ValidatedInvoiceWithoutItems ==
  /\ proc["p1"].pc = "validated"
  /\ doc.kind = "invoice"
  /\ doc.found /\ Truthy(doc.client) /\ Len(doc.items.v) = 0
  /\ proc["p1"].validation.errors = <<E_items>>

\* C7: after a successful emission the identifier stored on the document and
\* the number the emission returns are the first present of number,
\* data.<doctype>.number, data.<doctype>.id, id, document_id, uuid, trimmed.
C7_IdentifierPriority ==
  (EmitDone /\ proc["p1"].emitResult.success /\ ~NoIdentifier(proc["p1"].sendData))
    => /\ doc.factus_id = FirstPresent(proc["p1"].sendData)
       /\ proc["p1"].emitResult.number = FirstPresent(proc["p1"].sendData)

\* a credit-note emission that returned the nested number although the
\* response carries a flat number
C7_NestedNumberReturned ==
  /\ EmitDone
  /\ proc["p1"].emitResult.success
  /\ Present(proc["p1"].sendData.number)
  /\ proc["p1"].emitResult.number = Str(S_B2)

\* C9: once the auth endpoint has answered a token request with 401 or 403,
\* the call chain sends no further token or submission request and the
\* emission ends in failure.
C9_AuthFailureNotRetried ==
  /\ proc["p1"].afterDenied = 0
  /\ (EmitDone /\ proc["p1"].denied) => ~proc["p1"].emitResult.success

\* an emission that submitted the document after a 401 or 403 token answer
C9_SubmittedAfterDenied ==
  /\ EmitDone
  /\ proc["p1"].denied
  /\ proc["p1"].afterDenied >= 2
  /\ proc["p1"].nSubmit >= 1

\* the document without the fields a failure may change
KeptFields(d) ==
  [d EXCEPT !.estado_local = "Borrador", !.errores = Null, !.intentos_envio = Num(0)]

\* C14: a status update that records a failed transmission changes only the
\* status, the error messages and the attempt counter of the document; the
\* stored factus_id, bill id, CUFE/CUDE, QR and PDF and XML URLs keep their
\* values.
C14_FailureKeepsIdentifiers ==
  [][(proc["p1"].pc = "upd_write" /\ proc["p1"].updStatus = "fallida")
       => KeptFields(doc') = KeptFields(doc)]_vars

\* an invoice submitted by an earlier emission, with identifier and
\* artifacts, on which a later emission has recorded a failure
C14_FailureAfterSubmission ==
  /\ EmitDone
  /\ proc["p1"].updStatus = "fallida" /\ proc["p1"].nWrites = 1
  /\ doc.kind = "invoice"
  /\ doc.estado_local = "Rechazada" /\ doc.intentos_envio = Num(2)
  /\ doc.factus_id = Str(S_A1)
  /\ doc.cude = Str(S_cufe) /\ doc.qr = Str(S_qr)
  /\ doc.url_pdf = Str(S_pdf) /\ doc.url_xml = Str(S_xml)

\* C19: an emission in which the status update has thrown still ends by
\* returning a result to its caller, and that result has success = false
\* and carries an error message.
C19_EmitReturnsFailure ==
  (proc["p1"].pc = "emit_done" /\ proc["p1"].updThrew) =>
    /\ proc["p1"].emitResult.success = FALSE
    /\ IsString(proc["p1"].emitResult.error) /\ Truthy(proc["p1"].emitResult.error)

\* Factus has accepted the document, the update recording it has thrown, and
\* emit has returned the failure of the update
C19_AcceptedButNotRecorded ==
  /\ proc["p1"].pc = "emit_done" /\ proc["p1"].updThrew
  /\ proc["p1"].sendOk /\ proc["p1"].nSubmit >= 1
  /\ proc["p1"].emitResult = EmitResult(FALSE, E_database, Undef)
  /\ doc.estado_local = "Rechazada"

(***************************************************************************)
(* mapInvoiceToFactus(invoiceId) called on invoices with a client and one  *)
(* to MaxLines lines.  The id of a line is its position; a line has one of *)
(* two products or none, a quantity of 0, 2 or 3 and one of two prices.    *)
(***************************************************************************)
Lines(n) ==
  { Line(n, prod, Num(cant), Num(precio)) :
      prod \in {Null, ProductOf(1), ProductOf(2)}, cant \in {0, 2, 3}, precio \in {100, 200} }

LineLists(max) ==
  UNION { {ls \in [1..n -> UNION {Lines(i) : i \in 1..n}] :
             \A i \in 1..n : ls[i].id = Num(i)} : n \in 1..max }

\* mapInvoiceToFactus(invoiceId)
MapCall(p) ==
  /\ proc[p].pc = "idle"
  /\ proc' = [proc EXCEPT ![p] = [IdleProc EXCEPT !.pc = "mapped", !.op = "map",
                                                  !.mapped = map(doc, clock, setup.tz)]]
  /\ UNCHANGED <<setup, doc, config, clock, issued, faults, emits, tokenLog, ranges, rangeLog>>

MapReturn(p) ==
  /\ proc[p].pc = "mapped"
  /\ proc' = [proc EXCEPT ![p] = IdleProc]
  /\ UNCHANGED <<setup, doc, config, clock, issued, faults, emits, tokenLog, ranges, rangeLog>>

InitItems ==
  /\ InitShared
  /\ doc \in {NewDoc("invoice", TRUE, GoodClient, ls, Null, Undef) : ls \in LineLists(MaxLines)}
  /\ setup = [sender |-> "factus-sender", auth |-> "auth", envCreds |-> TRUE, tz |-> 0]

NextItems == MapCall("p1") \/ MapReturn("p1")

SpecItems == InitItems /\ [][NextItems]_vars

\* the lines of ls that carry the product of line i
SameProduct(ls, i) == {j \in 1..Len(ls) : ls[j].product = ls[i].product}

\* the positions at which a product occurs for the first time, in order
RECURSIVE FirstOccurrences(_, _)
FirstOccurrences(ls, i) ==
  IF i > Len(ls) THEN <<>>
  ELSE (IF \E j \in 1..(i - 1) : ls[j].product = ls[i].product THEN <<>> ELSE <<i>>)
         \o FirstOccurrences(ls, i + 1)

RECURSIVE SumCantidad(_, _)
SumCantidad(ls, S) ==
  IF S = {} THEN 0
  ELSE LET j == CHOOSE x \in S : TRUE
       IN ToNum(ls[j].cantidad) + SumCantidad(ls, S \ {j})

\* C15: for an invoice whose lines all carry a product, the mapped payload has
\* one item per distinct product, in order of first occurrence; its quantity
\* is the sum of the quantities of the lines with that product and its other
\* fields are those of the first such line.
C15_ConsolidatedByProduct ==
  LET ls == doc.items.v
      first == FirstOccurrences(ls, 1)
  IN (proc["p1"].pc = "mapped" /\ \A i \in 1..Len(ls) : ls[i].product # Null) =>
       /\ ~proc["p1"].mapped.throws
       /\ Len(proc["p1"].mapped.payload.items) = Len(first)
       /\ \A k \in 1..Len(first) :
            LET item == proc["p1"].mapped.payload.items[k]
            IN /\ item.name = ls[first[k]].product.nombre
               /\ item.price = ls[first[k]].precio_unitario
               /\ item.quantity = Num(SumCantidad(ls, SameProduct(ls, first[k])))

\* two lines with the same product and quantities 0 and 3 mapped into one
\* item of quantity 4
C15_ZeroCountedAsOne ==
  /\ proc["p1"].pc = "mapped"
  /\ Len(doc.items.v) = 2
  /\ doc.items.v[1].product = ProductOf(1) /\ doc.items.v[2].product = ProductOf(1)
  /\ doc.items.v[1].cantidad = Num(0) /\ doc.items.v[2].cantidad = Num(3)
  /\ ~proc["p1"].mapped.throws
  /\ Len(proc["p1"].mapped.payload.items) = 1
  /\ proc["p1"].mapped.payload.items[1].quantity = Num(4)

(***************************************************************************)
(* Properties of a direct send.  answers lists, per attempt made, the      *)
(* class of the answer to its submission request ("token" when the attempt *)
(* failed before submitting).                                              *)
(***************************************************************************)
SendDone == proc["p1"].pc = "sent" /\ proc["p1"].op = "send"

AllAnswers(pr, class) ==
  /\ Len(pr.answers) > 0
  /\ \A i \in 1..Len(pr.answers) : pr.answers[i] = class

IsLastOf(pr, class) ==
  \A i \in 1..Len(pr.answers) : pr.answers[i] = class => i = Len(pr.answers)

\* C1, first half: when every attempt of a send with retries = R ends in a
\* status >= 500, exactly R + 1 submission requests were made and the send failed.
C1_Persistent5xx ==
  SendDone /\ AllAnswers(proc["p1"], "5xx")
    => /\ proc["p1"].nSubmit = proc["p1"].retries + 1
       /\ ~proc["p1"].sendResult.success

\* C1, second half: an attempt that received a 4xx status is the last attempt,
\* whatever the error body is.
C1_4xxIsLast == IsLastOf(proc["p1"], "4xx")

\* C1: a send with retries = R makes exactly R + 1 submission requests when
\* every attempt ends in a status >= 500, and an attempt that receives a 4xx
\* status is the last one (one request for a 4xx on the first attempt).
C1_RetryContract == C1_Persistent5xx /\ C1_4xxIsLast

\* a 4xx answer was followed by a further submission request
C1_RetriedAfter4xx ==
  /\ Len(proc["p1"].answers) >= 2
  /\ proc["p1"].answers[1] = "4xx"
  /\ proc["p1"].nSubmit = 2

\* C2: a finished send reports success exactly when one of its attempts
\* received a 2xx status; that attempt is the last one made and the returned
\* data is the body of that response.
C2_SuccessIff2xx ==
  /\ IsLastOf(proc["p1"], "2xx")
  /\ SendDone =>
       /\ proc["p1"].sendResult.success <=>
            \E i \in 1..Len(proc["p1"].answers) : proc["p1"].answers[i] = "2xx"
       /\ proc["p1"].sendResult.success =>
            /\ proc["p1"].sendResult.hasData
            /\ proc["p1"].sendResult.data = proc["p1"].received

\* a send that succeeded on its third attempt with a body carrying a number
C2_SuccessAfterRetries ==
  /\ SendDone
  /\ proc["p1"].sendResult.success
  /\ Len(proc["p1"].answers) = 3
  /\ proc["p1"].sendResult.data.number = Str(S_A1pad)

(***************************************************************************)
(* mapInvoiceToFactus(invoiceId) called on invoices whose emission date    *)
(* lies up to MaxDaysApart days before or after today and whose due date,  *)
(* when there is one, up to MaxDaysApart + 1 days; the dates are stored as *)
(* date-only strings or, for the emission date, as an instant of today.    *)
(* The server runs in UTC, west of it (UTC-5) or east of it (UTC+2), and   *)
(* the call is made early, at noon or late in the UTC day.                 *)
(***************************************************************************)
Today == 10

SampleNow == {Today * DaySeconds + h * 3600 : h \in {0, 12, 22}}

SampleZones == {(0 - 5) * 3600, 0, 2 * 3600}

EmissionDates ==
  {Day(n) : n \in (Today - MaxDaysApart)..(Today + MaxDaysApart)}
    \cup {Date(Today * DaySeconds + 12 * 3600)}

DueDates ==
  {Undef} \cup {Day(n) : n \in (Today - MaxDaysApart - 1)..(Today + MaxDaysApart + 1)}

InitDates ==
  /\ config = EmptyConfig
  /\ clock \in SampleNow
  /\ issued = 0
  /\ faults = 0
  /\ emits = 0
  /\ tokenLog = NoTokenLog
  /\ proc = [p \in Procs |-> IdleProc]
  /\ ranges = <<>>
  /\ rangeLog = NoRangeLog
  /\ doc \in {[NewDoc("invoice", TRUE, GoodClient, <<Item(Product, Num(1), Num(100))>>, Null, Undef)
                 EXCEPT !.fecha_emision = e, !.fecha_vencimiento = v] :
                e \in EmissionDates, v \in DueDates}
  /\ setup \in [sender : {"factus-sender"}, auth : {"auth"}, envCreds : {TRUE},
                tz : SampleZones]

NextDates == MapCall("p1") \/ MapReturn("p1")

SpecDates == InitDates /\ [][NextDates]_vars

\* the calendar day a stored date denotes: the day a date-only string names,
\* the local day of an instant
StoredDay(d) == IF d.t = "day" THEN d.v ELSE LocalDay(d.v, setup.tz)

\* the emission day after clamping to today
ClampedDay == 
  LET today == LocalDay(clock, setup.tz)
      e == StoredDay(doc.fecha_emision)
  IN IF e > today THEN today ELSE e

\* the due day expected for the clamped emission day
ExpectedDueDay ==
  IF ~Truthy(doc.fecha_vencimiento) THEN ClampedDay
  ELSE IF StoredDay(doc.fecha_vencimiento) < ClampedDay THEN ClampedDay + 30
  ELSE StoredDay(doc.fecha_vencimiento)

\* C16: the mapped emission date is today when the stored emission date is in
\* the future and the stored date otherwise; the mapped due date is the
\* emission date plus 30 days when the stored due date is earlier than the
\* mapped emission date and the stored due date otherwise; the mapped
\* emission date is never in the future and the mapped due date never
\* earlier than the mapped emission date.
C16_DatesNormalized ==
  proc["p1"].pc = "mapped" =>
    /\ ~proc["p1"].mapped.throws
    /\ proc["p1"].mapped.payload.issue_date = Day(ClampedDay)
    /\ proc["p1"].mapped.payload.payment_due_date = Day(ExpectedDueDay)
    /\ proc["p1"].mapped.payload.issue_date.v <= LocalDay(clock, setup.tz)
    /\ proc["p1"].mapped.payload.payment_due_date.v
         >= proc["p1"].mapped.payload.issue_date.v

\* a server west of UTC has mapped an emission date of yesterday, stored as
\* a date-only string, to the day before yesterday
C16_EmissionDayShifted ==
  /\ proc["p1"].pc = "mapped" /\ ~proc["p1"].mapped.throws
  /\ setup.tz < 0
  /\ doc.fecha_emision = Day(Today - 1)
  /\ LocalDay(clock, setup.tz) = Today
  /\ proc["p1"].mapped.payload.issue_date = Day(Today - 2)
(***************************************************************************)
(* mapCreditNoteToFactus(creditNoteId) called on credit notes that pass    *)
(* its tests, with a concept id that is absent, null, a number from 0 to   *)
(* MaxConcept or a text, and a reason that is absent or a text.  The texts *)
(* are synonyms of the table in other letter case and with surrounding     *)
(* spaces, the empty text, an unknown word and the two names every object  *)
(* inherits.                                                               *)
(***************************************************************************)
S_Rebaja == <<" ", "R", "e", "b", "a", "j", "a", " ">>
S_DEVOLUCION == <<"D", "E", "V", "O", "L", "U", "C", "I", "Ó", "N">>
S_otros == <<"o", "t", "r", "o", "s">>
S_four == <<" ", "4", " ">>
S_xyz == <<"x", "y", "z">>

\* a documented synonym, as written by a user, and its code
SynonymSamples ==
  {<<S_devolucion, 1>>, <<S_DEVOLUCION, 1>>, <<S_Rebaja, 3>>, <<S_four, 4>>, <<S_otros, 5>>}

ConceptTexts ==
  {Str(x[1]) : x \in SynonymSamples} \cup {Str(<<>>), Str(S_xyz), Str(S_constructor), Str(S_proto)}

ConceptIds == {Undef, Null} \cup {Num(n) : n \in 0..MaxConcept} \cup ConceptTexts

InitConcept ==
  /\ InitShared
  /\ doc \in {[NewDoc("credit-note", TRUE, Null, <<GoodItem>>, GoodRef, m)
                 EXCEPT !.concepto_correccion_id = c] :
                c \in ConceptIds, m \in {Undef} \cup ConceptTexts}
  /\ setup = [sender |-> "credit-note", auth |-> "auth", envCreds |-> TRUE, tz |-> 0]

NextConcept == MapCall("p1") \/ MapReturn("p1")

SpecConcept == InitConcept /\ [][NextConcept]_vars

\* the value handed to mapConceptoCorreccion -- part_000:176
ConceptInput == Or(doc.concepto_correccion_id, doc.motivo)

\* the code the table documents for the input, 2 for every other input
DocumentedCode ==
  IF IsNumber(ConceptInput) /\ ConceptInput.v \in 1..5 THEN ConceptInput.v
  ELSE IF IsString(ConceptInput) /\ \E x \in SynonymSamples : x[1] = ConceptInput.v
    THEN (CHOOSE x \in SynonymSamples : x[1] = ConceptInput.v)[2]
  ELSE 2

\* C17: the correction concept code of the payload is the input itself for a
\* number from 1 to 5, the documented code for a synonym in any letter case
\* and with surrounding spaces, and 2 for every other input; it is always an
\* integer from 1 to 5.
C17_ConceptCodeTotal ==
  (proc["p1"].pc = "mapped" /\ ~proc["p1"].mapped.throws) =>
    /\ proc["p1"].mapped.payload.correction_concept_code = Num(DocumentedCode)
    /\ proc["p1"].mapped.payload.correction_concept_code \in {Num(n) : n \in 1..5}

\* an unknown text has been mapped to something that is not a number
C17_InheritedPropertyReturned ==
  /\ proc["p1"].pc = "mapped" /\ ~proc["p1"].mapped.throws
  /\ ConceptInput = Str(S_constructor)
  /\ proc["p1"].mapped.payload.correction_concept_code = ObjectConstructor
(***************************************************************************)
(* mapInvoiceToFactus(invoiceId) called on invoices with a client and one  *)
(* line, whose coded fields are each missing, a value of the table (in     *)
(* another letter case where the lookup normalizes it) or a text the table *)
(* does not hold.                                                          *)
(***************************************************************************)
S_Venta == <<"V", "e", "n", "t", "a">>
S_exportacion == <<"e", "x", "p", "o", "r", "t", "a", "c", "i", "o", "n">>
S_Credito == <<"C", "r", "e", "d", "i", "t", "o">>
S_cheque == <<"c", "h", "e", "q", "u", "e">>
S_NIT == <<"N", "I", "T">>
S_Juridica == <<"J", "u", "r", "i", "d", "i", "c", "a">>
S_Medellin == <<"0", "5", "0", "0", "1">>
S_kg == <<"k", "g">>

CodedClients ==
  {[GoodClient EXCEPT !.tipo_documento = td, !.tipo_persona = tp, !.ciudad_codigo = cc] :
     td \in {Undef, Str(S_NIT), Str(S_xyz)},
     tp \in {Undef, Null, Str(S_Juridica)},
     cc \in {Undef, Str(S_Medellin), Str(S_xyz)}}

CodedItems ==
  {Item([Product EXCEPT !.unidad_medida = um], Num(1), Num(100)) :
     um \in {Undef, Str(S_kg), Str(S_xyz)}}

InitCodes ==
  /\ InitShared
  /\ doc \in {[NewDoc("invoice", TRUE, c, <<i>>, Null, Undef)
                 EXCEPT !.tipo_operacion = op, !.forma_pago = fp, !.medio_pago = mp] :
                c \in CodedClients, i \in CodedItems,
                op \in {Undef, Null, Str(S_Venta), Str(S_exportacion), Str(S_xyz)},
                fp \in {Undef, Str(S_Credito), Str(S_xyz)},
                mp \in {Undef, Str(S_cheque)}}
  /\ setup = [sender |-> "factus-sender", auth |-> "auth", envCreds |-> TRUE, tz |-> 0]

NextCodes == MapCall("p1") \/ MapReturn("p1")

SpecCodes == InitCodes /\ [][NextCodes]_vars

\* the code a field is given: that of the table for the value drawn from the
\* table, the default for a missing or unknown one
CodeFor(x, known, code, default) == IF x = Str(known) THEN code ELSE default

\* C18: mapping an invoice never fails in a code-table lookup: whatever the
\* coded fields hold, missing values included, the payload carries for each
\* of them the code of the table or the table's default.
C18_LookupsTotal ==
  proc["p1"].pc = "mapped" =>
    /\ ~proc["p1"].mapped.throws
    /\ LET c == proc["p1"].mapped.payload.codes
       IN /\ c.operation_type
               = CodeFor(doc.tipo_operacion, S_exportacion, Num(20), Num(10))
          /\ c.payment_form = CodeFor(doc.forma_pago, S_Credito, Str(<<"2">>), Str(<<"1">>))
          /\ c.payment_method_code
               = IF doc.medio_pago = Str(S_cheque) THEN Str(<<"2", "0">>)
                 ELSE CodeFor(doc.forma_pago, S_Credito, Str(<<"1">>), Str(<<"1", "0">>))
          /\ c.identification_document_id
               = CodeFor(doc.client.tipo_documento, S_NIT, Str(<<"6">>), Str(<<"3">>))
          /\ c.legal_organization_id
               = CodeFor(doc.client.tipo_persona, S_Juridica, Str(<<"1">>), Str(<<"2">>))
          /\ c.tribute_id = Str(<<"2", "1">>)
          /\ c.municipality_id
               = CodeFor(doc.client.ciudad_codigo, S_Medellin, Str(<<"1", "9">>),
                         Str(<<"1", "4", "9">>))
          /\ c.unit_measure_id[1]
               = CodeFor(doc.items.v[1].product.unidad_medida, S_kg, Num(28), Num(70))

\* mapping has failed for an invoice that lacks nothing but the operation type
C18_MissingOperationTypeThrows ==
  /\ proc["p1"].pc = "mapped" /\ proc["p1"].mapped.throws
  /\ doc.tipo_operacion = Undef
  /\ doc.found /\ doc.client.email = GoodClient.email /\ Len(doc.items.v) = 1
  /\ doc.client.tipo_documento = Str(S_NIT) /\ doc.forma_pago = Str(S_Credito)
(***************************************************************************)
(* One emission of a document that passes every local test, starting with *)
(* an empty credential cache, with a token good for an hour, or with an    *)
(* expired token and a refresh token, so that a token acquisition may send *)
(* a refresh grant and then a password grant.                              *)
(***************************************************************************)
ExpiredConfig ==
  [token_acceso |-> Token(0), token_expiracion |-> Date(0), refresh_token |-> Token(0)]

CachedConfig ==
  [token_acceso |-> Token(0), token_expiracion |-> Date(DefaultExpiresIn),
   refresh_token |-> Null]

InitWork ==
  /\ config \in {EmptyConfig, CachedConfig, ExpiredConfig}
  /\ clock = 0
  /\ issued = 0
  /\ faults = 0
  /\ emits = 0
  /\ tokenLog = NoTokenLog
  /\ proc = [p \in Procs |-> IdleProc]
  /\ ranges = <<>>
  /\ rangeLog = NoRangeLog
  /\ doc \in {NewDoc("invoice", TRUE, GoodClient, <<GoodItem>>, Null, Undef),
              NewDoc("credit-note", TRUE, Null, <<GoodItem>>, GoodRef, Str(S_devolucion))}
  /\ setup \in [sender : SenderImpls, auth : AuthImpls, envCreds : {TRUE}, tz : {0}]
  /\ doc.kind = "invoice" <=> setup.sender \in InvoiceSenders
NextWork ==
  \/ emits = 0 /\ EmitCall("p1")
  \/ EmitPrepare("p1")
  \/ EmitToken("p1")
  \/ SendToken("p1")
  \/ SendPost("p1")
  \/ EmitSent("p1")
  \/ UpdateRead("p1")
  \/ UpdateWrite("p1")
  \/ EmitReturn("p1")

SpecWork == InitWork /\ [][NextWork]_vars

\* the steps an emission at this position can still take, at most
StepsLeft(pr) ==
  CASE pr.pc = "emit_prepare" -> 2 * EmitRetries + 12
    [] pr.pc = "emit_token" -> 2 * EmitRetries + 11
    [] pr.pc = "send_token" -> 2 * (pr.retries - pr.attempt) + 9
    [] pr.pc = "send_post" -> 2 * (pr.retries - pr.attempt) + 8
    [] pr.pc = "sent" -> 5
    [] pr.pc = "upd_read" -> IF pr.updCtx = "catch" THEN 2 ELSE 4
    [] pr.pc = "upd_write" -> IF pr.updCtx = "catch" THEN 1 ELSE 3
    [] OTHER -> 0

\* the requests one getToken call sends, whatever the auth endpoint answers
GrantSequences ==
  {getToken(setup.auth, config, clock, setup.envCreds, r1, r2).reqs :
     r1 \in SendAuthAnswers, r2 \in SendAuthAnswers}

\* C20: an emission sends at most retries + 1 submission requests; a token
\* acquisition sends at most one refresh-grant request and, after it, at most
\* one password-grant request; and every step of an emission brings it
\* nearer to its return, so it ends after a bounded number of requests.
C20_BoundedWork ==
  /\ [](/\ proc["p1"].nSubmit <= EmitRetries + 1
        /\ proc["p1"].nToken <= 2 * (EmitRetries + 2)
        /\ GrantSequences \subseteq {<<>>, <<"refresh">>, <<"password">>,
                                     <<"refresh", "password">>})
  /\ [][proc["p1"].pc \notin {"idle", "emit_done"}
          => StepsLeft(proc'["p1"]) < StepsLeft(proc["p1"])]_vars

\* an emission has returned after retries + 1 submissions, all with the
\* token its first acquisition obtained by a password grant after the
\* refresh grant had failed
C20_AllAttemptsUsed ==
  /\ proc["p1"].pc = "emit_done"
  /\ emits = 1
  /\ proc["p1"].nSubmit = EmitRetries + 1
  /\ proc["p1"].nToken = 2 /\ issued = 1
  /\ config.refresh_token = Token(0)
(***************************************************************************)
(* getToken() and invalidateToken() of factus-emission.ts called directly, *)
(* in any order, while time passes.  tokenLog keeps, after an              *)
(* invalidation, the row it found; the log of the getToken call that       *)
(* follows keeps the token that row held.                                  *)
(***************************************************************************)
InvalidateTokenCall ==
  /\ config' = invalidateToken(config, clock)
  /\ tokenLog' = [NoTokenLog EXCEPT !.invalidated = TRUE, !.cfg = config, !.clock = clock,
                                    !.issued = issued]
  /\ UNCHANGED <<setup, doc, clock, issued, faults, emits, proc, ranges, rangeLog>>

InitInvalidate ==
  /\ InitShared
  /\ doc = NoDoc
  /\ setup \in [sender : {"sender"}, auth : {"auth"}, envCreds : BOOLEAN, tz : {0}]

NextInvalidate ==
  \/ GetTokenCall
  \/ InvalidateTokenCall
  \/ Tick

SpecInvalidate == InitInvalidate /\ [][NextInvalidate]_vars

\* what invalidateToken leaves in the row, and the token of the next getToken
InvalidationEffect ==
  /\ tokenLog.invalidated =>
       /\ config.token_acceso = Null
       /\ config.token_expiracion.v < clock
       /\ config.refresh_token = tokenLog.cfg.refresh_token
  /\ (tokenLog.called /\ tokenLog.prior # Undef /\ tokenLog.result.ok) =>
       /\ tokenLog.result.token # tokenLog.prior
       /\ Len(tokenLog.result.reqs) >= 1

C22_RefreshFirst ==
  (tokenLog.called /\ ~CachedFor10Minutes(tokenLog.cfg, tokenLog.clock)) =>
    LET reqs == tokenLog.result.reqs
    IN IF Truthy(tokenLog.cfg.refresh_token)
         THEN reqs \in {<<"refresh">>, <<"refresh", "password">>}
         ELSE reqs \in {<<>>, <<"password">>}

\* with a refresh token stored and no access token cached, getToken has sent
\* the password grant and no refresh grant
C22_RefreshSkipped ==
  /\ tokenLog.called
  /\ tokenLog.cfg.token_acceso = Null
  /\ tokenLog.cfg.refresh_token = Token(1)
  /\ tokenLog.result.reqs = <<"password">>
C24_LinearBackoff ==
  LET pr == proc["p1"]
  IN pr.op = "send" =>
       /\ \A k \in 1..Len(pr.waits) : pr.waits[k] = RetryDelay * k
       /\ pr.pc = "send_token" => Len(pr.waits) = Len(pr.answers) - (IF pr.attempt > 0 THEN 1 ELSE 0)
       /\ pr.pc = "send_post" => Len(pr.waits) = pr.attempt /\ Len(pr.answers) = pr.attempt
       /\ \A k \in 1..Len(pr.waits) : pr.answers[k] \in {"5xx", "none"}

\* the sender has waited and started a second attempt after a first attempt
\* that was answered with a 4xx status
C24_WaitAfter4xx ==
  /\ proc["p1"].op = "send" /\ proc["p1"].pc = "send_post"
  /\ proc["p1"].waits = <<RetryDelay>>
  /\ proc["p1"].answers = <<"4xx">>
\* send of an invoice sender has returned after all its attempts failed
AllAttemptsFailed(pr) ==
  /\ pr.op = "send" /\ pr.pc = "sent"
  /\ ~pr.sendResult.success /\ ~pr.sendResult.hasData

\* C25: when all retries + 1 attempts have failed, the message of the
\* failure that send returns follows the last attempt's error: status 502,
\* 503 or 504 gives the service-unavailable message, 401 or 403 the
\* authentication-error message, a request without response the
\* connectivity-error message, anything else the last error's own message.
C25_FinalErrorMessage ==
  LET pr == proc["p1"]
      e == pr.lastError
  IN (setup.sender \in InvoiceSenders /\ AllAttemptsFailed(pr)) =>
       pr.sendResult.error =
         IF e.hasResponse /\ e.status \in {502, 503, 504} THEN ServiceUnavailableMessage(e.status)
         ELSE IF e.hasResponse /\ e.status \in {401, 403} THEN AuthenticationErrorMessage
         ELSE IF ~e.hasResponse /\ e.hasRequest THEN ConnectivityErrorMessage
         ELSE AfterAttemptsMessage(e)

\* sendInvoice of factus-sender.ts has used all its attempts, the last one
\* answered with status 503, and returns the generic message
C25_GenericMessageAfter503 ==
  /\ setup.sender = "factus-sender" /\ AllAttemptsFailed(proc["p1"])
  /\ proc["p1"].attempt = proc["p1"].retries /\ proc["p1"].retries > 0
  /\ proc["p1"].lastError = AxiosResponseError(503, EmptyBody)
  /\ proc["p1"].sendResult.error = AfterAttemptsMessage(AxiosResponseError(503, EmptyBody))
(***************************************************************************)
(* Concurrent getToken calls.  A call reads the configuration row, awaits  *)
(* the auth endpoint and then writes the row; other calls run during each  *)
(* await.  tokRead is the row a call read, tokAnswer the response it took  *)
(* its token from, tokResult what it computed from them.                   *)
(***************************************************************************)
\* an update that writes the access token alone
TokenUpdateAccessOnly(row, data) == [row EXCEPT !.token_acceso = data.token_acceso]

\* entityService.update(config.id, {data: {token_acceso, token_expiracion,
\* refresh_token}}) -- factus-emission.ts:884-894, 946-957
TokenUpdate(row, data) ==
  [row EXCEPT !.token_acceso = data.token_acceso,
              !.token_expiracion = data.token_expiracion,
              !.refresh_token = data.refresh_token]

\* findOne and the cache test -- factus-emission.ts:811-829
TokenRead(p) ==
  /\ proc[p].pc = "idle"
  /\ proc' = [proc EXCEPT ![p] =
       [@ EXCEPT !.op = "getToken", !.tokRead = config,
                 !.pc = IF CacheUsable(config, clock,
                                        IF setup.auth = "auth" THEN LeadAuth
                                        ELSE LeadFactusAuth)
                          THEN "tok_done" ELSE "tok_post",
                 !.tokResult = getToken(setup.auth, config, clock, setup.envCreds,
                                        AuthNoResponse, AuthNoResponse)]]
  /\ UNCHANGED <<setup, doc, config, clock, issued, faults, emits, tokenLog, ranges, rangeLog>>

\* getToken past the cache test, where refreshToken reads the row again --
\* factus-emission.ts:832-838, 910-914
getTokenRereading(read, row, now, env, r1, r2) ==
  IF /\ setup.auth = "auth"
     /\ Truthy(read.token_acceso) /\ Truthy(read.token_expiracion)
     /\ Truthy(read.refresh_token)
     /\ Truthy(row.refresh_token)
     /\ r1.kind = "ok" /\ Truthy(r1.access_token)
    THEN TokenResult(TRUE, r1.access_token, StoreToken(row, r1, now), <<"refresh">>, NoError)
    ELSE getToken(setup.auth, read, now, env, r1, r2)

\* the requests to the auth endpoint, on the row read before them --
\* factus-emission.ts:832-878, 907-944
TokenPost(p) ==
  /\ proc[p].pc = "tok_post"
  /\ \E r1, r2 \in AuthAnswers :
       LET res == getTokenRereading(proc[p].tokRead, config, clock, setup.envCreds, r1, r2)
       IN /\ proc' = [proc EXCEPT ![p] =
               [@ EXCEPT !.tokResult = res,
                         !.tokRead = IF res.reqs = <<"refresh">> THEN config ELSE @,
                         !.tokAnswer = IF Len(res.reqs) = 0 THEN AuthNoResponse
                                       ELSE IF res.reqs[Len(res.reqs)] = "refresh" THEN r1
                                       ELSE r2,
                         !.pc = IF res.ok THEN "tok_write" ELSE "tok_done"]]
          /\ issued' = IF res.ok THEN issued + 1 ELSE issued
  /\ UNCHANGED <<setup, doc, config, clock, faults, emits, tokenLog, ranges, rangeLog>>

\* the update of the row and the return -- factus-emission.ts:884-897
TokenWrite(p) ==
  /\ proc[p].pc = "tok_write"
  /\ config' = TokenUpdate(config, proc[p].tokResult.cfg)
  /\ proc' = [proc EXCEPT ![p] = [@ EXCEPT !.pc = "tok_done"]]
  /\ tokenLog' = [tokenLog EXCEPT !.called = TRUE, !.answer = proc[p].tokAnswer,
                                  !.cfg = proc[p].tokRead, !.result = proc[p].tokResult]
  /\ UNCHANGED <<setup, doc, clock, issued, faults, emits, ranges, rangeLog>>

InitTokenRace ==
  /\ config \in {EmptyConfig, ExpiredConfig}
  /\ clock = 0
  /\ issued = 0
  /\ faults = 0
  /\ emits = 0
  /\ tokenLog = NoTokenLog
  /\ proc = [p \in Procs |-> IdleProc]
  /\ ranges = <<>>
  /\ rangeLog = NoRangeLog
  /\ doc = NoDoc
  /\ setup \in [sender : {"sender"}, auth : AuthImpls, envCreds : {TRUE}, tz : {0}]

NextTokenRace ==
  \/ \E p \in Procs :
       \/ TokenRead(p)
       \/ TokenPost(p)
       \/ TokenWrite(p)
  \/ Tick

SpecTokenRace == InitTokenRace /\ [][NextTokenRace]_vars

\* the call of p has obtained a token from the auth endpoint
Exchanged(p) ==
  /\ proc[p].op = "getToken" /\ proc[p].pc \in {"tok_write", "tok_done"}
  /\ proc[p].tokResult.ok /\ Len(proc[p].tokResult.reqs) > 0

\* C26: concurrent getToken calls that find the cached token expired each
\* make their own exchange; once a call has written, the cached access
\* token, expiry and refresh token are the three values of the last write,
\* all computed from the one response of the call that made it, and a call
\* that exchanged returns the access token of its own response.
C26_LastWriterWins ==
  /\ tokenLog.called =>
       /\ config.token_acceso = tokenLog.answer.access_token
       /\ config.token_expiracion = tokenLog.result.cfg.token_expiracion
       /\ config.refresh_token = Or(tokenLog.answer.refresh_token, tokenLog.cfg.refresh_token)
       /\ tokenLog.answer.kind = "ok"
       /\ \E p \in Procs :
            /\ proc[p].pc = "tok_done" /\ Exchanged(p)
            /\ proc[p].tokAnswer = tokenLog.answer
  /\ \A p \in Procs :
       Exchanged(p) => proc[p].tokResult.token = proc[p].tokAnswer.access_token

\* both calls found the token expired, both exchanged and wrote, and the
\* cache holds the token of p1 although p2 was answered later
C26_BothExchanged ==
  /\ proc["p1"].pc = "tok_done" /\ proc["p2"].pc = "tok_done"
  /\ Exchanged("p1") /\ Exchanged("p2")
  /\ proc["p1"].tokRead = ExpiredConfig /\ proc["p2"].tokRead = ExpiredConfig
  /\ proc["p1"].tokResult.token = Token(1) /\ proc["p2"].tokResult.token = Token(2)
  /\ config.token_acceso = Token(1)
  /\ config.token_expiracion # proc["p2"].tokResult.cfg.token_expiracion
(***************************************************************************)
(* Numbering inside concurrent emissions.  Each process emits a document   *)
(* of its own with the content of doc; the mapper awaits getActiveRange    *)
(* and then getNextConsecutive, and other calls run during each await.     *)
(* numbering is what the mapper resolved, rangeBefore the counter the row  *)
(* held when it was read, sent whether the payload was handed to send.     *)
(***************************************************************************)
\* the ranges after getNextConsecutive has fetched and incremented the counter
AfterNextIncremented(rs, id) == WriteConsecutive(rs, id, rs[id].consecutivo_actual)

\* the ranges after getNextConsecutive -- part_006:65-90: no write
AfterNext(rs, id) == rs

\* the relation checks and getActiveRange('factura') -- mapper.ts:27-37, 84-86
NumberingRange(p) ==
  /\ proc[p].pc = "idle"
  /\ LET r == getActiveRange(ranges, "factura")
     IN proc' = [proc EXCEPT ![p] =
          IF mapInvoiceToFactus(doc, clock, setup.tz).throws
            THEN [@ EXCEPT !.op = "emit", !.pc = "num_failed"]
          ELSE IF r.kind = "range"
            THEN [@ EXCEPT !.op = "emit", !.pc = "num_next", !.rangeId = r.id]
          ELSE [@ EXCEPT !.op = "emit", !.pc = "num_mapped",
                         !.numbering = NumberingDefaults(setup)]]
  /\ UNCHANGED <<setup, doc, config, clock, issued, faults, emits, tokenLog, ranges, rangeLog>>

\* getNextConsecutive(range.id) -- mapper.ts:87-93
NumberingNext(p) ==
  /\ proc[p].pc = "num_next"
  /\ LET id == proc[p].rangeId
         next == getNextConsecutive(ranges, id)
     IN /\ proc' = [proc EXCEPT ![p] =
             [@ EXCEPT !.pc = "num_mapped",
                       !.rangeBefore = ranges[id].consecutivo_actual,
                       !.numbering = IF next.kind = "value"
                                       THEN NumberingFromRange(ranges[id], next)
                                       ELSE NumberingDefaults(setup)]]
        /\ ranges' = AfterNext(ranges, id)
  /\ UNCHANGED <<setup, doc, config, clock, issued, faults, emits, tokenLog, rangeLog>>

\* the payload is built and handed to send -- mapper.ts:192-196,
\* factus-emission.ts:543-567
NumberingSend(p) ==
  /\ proc[p].pc = "num_mapped"
  /\ proc' = [proc EXCEPT ![p] = [@ EXCEPT !.pc = "num_sent", !.sent = TRUE]]
  /\ UNCHANGED <<setup, doc, config, clock, issued, faults, emits, tokenLog, ranges, rangeLog>>

InitNumbering ==
  /\ config = EmptyConfig
  /\ clock = 0
  /\ issued = 0
  /\ faults = 0
  /\ emits = 0
  /\ tokenLog = NoTokenLog
  /\ proc = [p \in Procs |-> IdleProc]
  /\ ranges \in {<<>>, <<Range("factura", 4, 5)>>,
                 <<Range("factura", 1, 5), Range("nota_credito", 4, 5)>>}
  /\ rangeLog = NoRangeLog
  /\ doc \in {NewDoc("invoice", TRUE, GoodClient, <<GoodItem>>, Null, Undef),
              NewDoc("invoice", TRUE, Null, <<GoodItem>>, Null, Undef)}
  /\ setup \in [sender : {"sender"}, auth : {"auth"}, envCreds : {TRUE}, tz : {0},
                 numbering_range_id : {Undef, Num(3)},
                 consecutivo_actual : {Undef, Num(12)},
                 prefijo_factura : {Undef, Str(<<"F", "E">>)}]

NextNumbering ==
  \/ incrementConsecutive
  \/ \E p \in Procs :
       \/ NumberingRange(p)
       \/ NumberingNext(p)
       \/ NumberingSend(p)

SpecNumbering == InitNumbering /\ [][NextNumbering]_vars

\* the reference code of the payload that p handed to send
SentReference(p) == referenceCode(doc.numero_factura, proc[p].numbering)

\* C27: reading the next consecutive reserves nothing: getNextConsecutive
\* inside an emission returns the counter the range holds and leaves the
\* range as it is, whatever the other emission is doing, so a second
\* emission that reads before an increment gets the same number.
C27_ReadReservesNothing ==
  [][\A p \in Procs :
       (proc[p].pc = "num_next" /\ proc'[p].pc = "num_mapped") =>
         /\ ranges' = ranges
         /\ proc'[p].numbering.source = "range" =>
              proc'[p].numbering.consecutivo = Num(ranges[proc[p].rangeId].consecutivo_actual)]_vars

\* both emissions have read the same counter of the same range, no
\* increment came between, and both payloads were sent with the same number
C27_SameConsecutiveSent ==
  /\ proc["p1"].sent /\ proc["p2"].sent
  /\ proc["p1"].numbering.source = "range" /\ proc["p2"].numbering.source = "range"
  /\ proc["p1"].rangeId = proc["p2"].rangeId
  /\ proc["p1"].numbering.consecutivo = proc["p2"].numbering.consecutivo
  /\ SentReference("p1") = SentReference("p2")
  /\ ranges[proc["p1"].rangeId].consecutivo_actual = proc["p1"].numbering.consecutivo.v
\* the allocator call that p is about to make throws
AllocatorFails(p) ==
  \/ proc[p].pc = "idle" /\ getActiveRange(ranges, "factura").kind # "range"
  \/ proc[p].pc = "num_next" /\ getNextConsecutive(ranges, proc[p].rangeId).kind # "value"

\* C28: when the allocator fails for any reason the mapping of a complete
\* invoice does not fail: it goes on to build the payload, with the range
\* id, the counter and the prefix that the global configuration holds as
\* defaults.
C28_FallbackToConfigDefaults ==
  [][\A p \in Procs :
       (/\ AllocatorFails(p) /\ proc'[p] # proc[p]
        /\ ~mapInvoiceToFactus(doc, clock, setup.tz).throws) =>
         /\ proc'[p].pc = "num_mapped"
         /\ proc'[p].numbering.source = "config"
         /\ Truthy(setup.numbering_range_id) =>
              proc'[p].numbering.numbering_range_id = setup.numbering_range_id
         /\ Truthy(setup.consecutivo_actual) =>
              proc'[p].numbering.consecutivo = setup.consecutivo_actual
         /\ Truthy(setup.prefijo_factura) =>
              proc'[p].numbering.prefijo = setup.prefijo_factura]_vars

\* the range was used up between getActiveRange and getNextConsecutive, and
\* the payload went out with the three defaults of the configuration
C28_SentWithConfigDefaults ==
  /\ proc["p1"].sent /\ proc["p1"].rangeId = 1
  /\ proc["p1"].rangeBefore > ranges[1].hasta
  /\ proc["p1"].numbering = Numbering("config", Num(3), Num(12), Str(<<"F", "E">>))
  /\ SentReference("p1") = Str(<<"F", "E", "-", "1", "2">>)

\* C29: an emission whose numbering range cannot be resolved (the allocator
\* fails and the configuration holds no default range) fails in the mapper
\* and hands nothing to send; nor does an emission of a document that lacks
\* a required relation.
C29_NoRangeNoRequest ==
  \A p \in Procs :
    /\ (proc[p].numbering.source = "config" /\ ~Truthy(setup.numbering_range_id))
         => ~proc[p].sent
    /\ mapInvoiceToFactus(doc, clock, setup.tz).throws
         => (~proc[p].sent /\ proc[p].pc \in {"idle", "num_failed"})

\* there is no active range and no default range, and the payload went out
\* with numbering_range_id 8 and reference code FV-8
C29_SentWithLiteralRange ==
  /\ ranges = <<>>
  /\ setup.numbering_range_id = Undef /\ setup.consecutivo_actual = Undef
  /\ setup.prefijo_factura = Undef
  /\ proc["p1"].sent
  /\ proc["p1"].numbering.numbering_range_id = Num(8)
  /\ SentReference("p1") = Str(<<"F", "V", "-", "8">>)
\* the response a reconciliation after send is given to store: the body of
\* the send result, or {} when there is none -- factus-emission.ts:585-590, 606
ResponseToStore(pr) == IF pr.sendData.isNull THEN EmptyBody ELSE pr.sendData

Prepared(pr) ==
  /\ pr.validation.valid
  /\ ~map(doc, clock, setup.tz).throws
  /\ validatePayload(doc.kind, map(doc, clock, setup.tz).payload)

\* C31: the status of a document becomes Enviada only in the status write
\* of an emission whose send has returned a 2xx answer, and an emission
\* makes a submission request only after document validation, mapping and
\* payload validation have succeeded.
C31_EnviadaOnlyAfter2xx ==
  [][/\ (doc.estado_local # "Enviada" /\ doc'.estado_local = "Enviada") =>
          /\ proc["p1"].pc = "upd_write" /\ proc["p1"].updCtx = "success"
          /\ proc["p1"].sent /\ proc["p1"].sendOk
          /\ proc["p1"].nSubmit >= 1
          /\ Prepared(proc["p1"])
     /\ (proc["p1"].op = "emit" /\ proc'["p1"].nSubmit > proc["p1"].nSubmit) =>
          Prepared(proc["p1"])]_vars

\* an emission has been answered 2xx on its second submission request and
\* has written the document as Enviada
C31_EnviadaAfterRetry ==
  /\ EmitDone /\ proc["p1"].sendOk /\ proc["p1"].nSubmit = 2
  /\ proc["p1"].nWrites = 1 /\ proc["p1"].start = Num(0)
  /\ doc.estado_local = "Enviada"
\* C32: when an emission returns success = true the document is stored as
\* Enviada with a non-null external identifier; no success is returned for
\* a document that the reconciliation marked Rechazada.
C32_SuccessMeansSubmitted ==
  (EmitDone /\ proc["p1"].emitResult.success) =>
    /\ doc.estado_local = "Enviada"
    /\ Truthy(doc.factus_id)

\* emitInvoice has returned success = true for a 2xx answer without an
\* identifier, and the invoice is stored as Rechazada with factus_id null
C32_SuccessReturnedForRechazada ==
  /\ EmitDone /\ doc.kind = "invoice"
  /\ proc["p1"].emitResult.success
  /\ proc["p1"].sendData = EmptyBody
  /\ doc.estado_local = "Rechazada" /\ doc.factus_id = Null
  /\ doc.errores = E_noId
(***************************************************************************)
(* Entry points of an emission.  entry is the entry point a request came   *)
(* through and startStatus the status the document had when it arrived.    *)
(***************************************************************************)
Entries == {"factus-emission controller", "factus controller",
            "credit-note controller", "service"}

E_state == Msg("Solo se pueden emitir documentos en estado Borrador")

\* the document kinds an entry point emits
EntryEmits(entry, kind) ==
  CASE entry = "credit-note controller" -> kind = "credit-note"
    [] entry = "service" -> TRUE
    [] OTHER -> kind = "invoice"

\* the checks an entry point makes before it calls the emission service --
\* controllers/factus-emission.ts:42-56, controllers/factus.ts:15-28,
\* controllers/credit-note.ts:287-298
EntryAdmits(entry, d) ==
  CASE entry = "factus-emission controller" -> d.found /\ d.estado_local = "Borrador"
    [] entry = "credit-note controller" ->
         /\ d.found
         /\ d.estado_local # "Enviada"
         /\ Truthy(d.invoice) /\ Truthy(d.invoice.factus_id)
    [] OTHER -> TRUE

\* an emit request arriving through an entry point
ControllerEmit(p) ==
  /\ proc[p].pc = "idle"
  /\ emits < MaxSequential
  /\ emits' = emits + 1
  /\ \E entry \in Entries :
       /\ EntryEmits(entry, doc.kind)
       /\ LET pr == [IdleProc EXCEPT !.op = "emit", !.start = doc.intentos_envio,
                                     !.entry = entry, !.startStatus = doc.estado_local]
          IN proc' = [proc EXCEPT ![p] =
               IF EntryAdmits(entry, doc) THEN [pr EXCEPT !.pc = "emit_prepare"]
               ELSE Done(pr, EmitResult(FALSE, E_state, Undef))]
  /\ UNCHANGED <<setup, doc, config, clock, issued, faults, tokenLog, ranges, rangeLog>>

InitEntry ==
  /\ config = EmptyConfig
  /\ clock = 0
  /\ issued = 0
  /\ faults = 0
  /\ emits = 0
  /\ tokenLog = NoTokenLog
  /\ proc = [p \in Procs |-> IdleProc]
  /\ ranges = <<>>
  /\ rangeLog = NoRangeLog
  /\ doc \in {NewDoc("invoice", TRUE, GoodClient, <<GoodItem>>, Null, Undef),
              NewDoc("credit-note", TRUE, Null, <<GoodItem>>, GoodRef, Str(S_devolucion))}
  /\ setup \in [sender : SenderImpls, auth : {"auth"}, envCreds : {TRUE}, tz : {0}]
  /\ doc.kind = "invoice" <=> setup.sender \in InvoiceSenders

NextEntry ==
  \/ ControllerEmit("p1")
  \/ EmitPrepare("p1")
  \/ EmitToken("p1")
  \/ SendToken("p1")
  \/ SendPost("p1")
  \/ EmitSent("p1")
  \/ UpdateRead("p1")
  \/ UpdateWrite("p1")
  \/ EmitReturn("p1")

SpecEntry == InitEntry /\ [][NextEntry]_vars

\* C33: an emit request for a document that is already Enviada makes no
\* submission request and leaves the document Enviada, whichever entry
\* point it came through.
C33_EnviadaNotResent ==
  (proc["p1"].op = "emit" /\ proc["p1"].startStatus = "Enviada") =>
    /\ proc["p1"].nSubmit = 0
    /\ doc.estado_local = "Enviada"

\* an invoice that was Enviada has been emitted again through the factus
\* controller, submitted again and is now stored as Rechazada
C33_EnviadaResentAndRejected ==
  /\ EmitDone /\ doc.kind = "invoice"
  /\ proc["p1"].entry = "factus controller"
  /\ proc["p1"].startStatus = "Enviada"
  /\ proc["p1"].nSubmit >= 1
  /\ doc.estado_local = "Rechazada"
\* C34: once a document has a non-null external identifier no later
\* emission on it, whatever its outcome, stores a null identifier.
C34_IdentifierNeverCleared ==
  [][Truthy(doc.factus_id) => Truthy(doc'.factus_id)]_vars

\* an invoice that was Enviada, hence stored with an identifier, has been
\* emitted again, answered 2xx without an identifier, and now has none
C34_IdentifierClearedBySuccess ==
  /\ EmitDone /\ doc.kind = "invoice"
  /\ proc["p1"].startStatus = "Enviada"
  /\ proc["p1"].sendOk /\ NoIdentifier(proc["p1"].sendData)
  /\ proc["p1"].nWrites = 1
  /\ doc.factus_id = Null /\ doc.estado_local = "Rechazada"
\* C35: a getToken call that fails, because the grants it tried were
\* refused or unanswered or because the client credentials are missing,
\* leaves the cached access token, its expiry and the refresh token as
\* they were before the call.
C35_FailedCallKeepsCache ==
  (tokenLog.called /\ ~tokenLog.result.ok) =>
    /\ tokenLog.result.cfg = tokenLog.cfg
    /\ config = tokenLog.cfg

\* getToken found a token near expiry, was refused the refresh grant and
\* then the password grant, and the row still holds the three old values
C35_BothGrantsRefused ==
  /\ tokenLog.called /\ ~tokenLog.result.ok
  /\ tokenLog.result.reqs = <<"refresh", "password">>
  /\ config.token_acceso = Token(1) /\ config.refresh_token = Token(1)
  /\ Truthy(config.token_expiracion)
\* ---- two emissions one after the other against the same range ----
\* p1 emits one invoice and p2 the next one; the two documents have the
\* same fields (no numero_factura), their identity does not enter the
\* reference code -- mapper.ts:74-98, 191-196

\* send: the answer of the service is recorded -- factus-emission.ts:556-567
SequenceSend(p) ==
  /\ proc[p].pc = "num_mapped"
  /\ \E a \in SubmitAnswers :
       proc' = [proc EXCEPT ![p] =
                  [@ EXCEPT !.pc = "num_sent", !.sent = TRUE,
                            !.sendOk = (a.hasResponse /\ Is2xx(a.status))]]
  /\ UNCHANGED <<setup, doc, config, clock, issued, faults, emits, tokenLog, ranges, rangeLog>>

NextSequence ==
  \/ incrementConsecutive
  \/ NumberingRange("p1")
  \/ NumberingNext("p1")
  \/ SequenceSend("p1")
  \/ proc["p1"].pc = "num_sent" /\ NumberingRange("p2")
  \/ NumberingNext("p2")
  \/ SequenceSend("p2")

SpecSequence == InitNumbering /\ [][NextSequence]_vars

\* C36: two documents without a preassigned number, emitted one after the
\* other against the same active range, are sent with different reference
\* codes: the code of the one that was submitted with success is not used
\* by the next emission.
C36_NextEmissionNewCode ==
  (/\ ~Truthy(doc.numero_factura)
   /\ proc["p1"].sent /\ proc["p1"].sendOk /\ proc["p2"].sent
   /\ proc["p1"].numbering.source = "range" /\ proc["p2"].numbering.source = "range"
   /\ proc["p1"].rangeId = proc["p2"].rangeId)
    => SentReference("p1") # SentReference("p2")

\* the first invoice went out as SETP-1 and was accepted; the second one,
\* emitted afterwards, went out as SETP-1 too, and the range still holds 1
C36_SameCodeSentTwice ==
  /\ ~Truthy(doc.numero_factura)
  /\ proc["p1"].pc = "num_sent" /\ proc["p1"].sendOk
  /\ proc["p2"].pc = "num_sent" /\ proc["p2"].sendOk
  /\ proc["p1"].numbering.source = "range" /\ proc["p2"].numbering.source = "range"
  /\ proc["p1"].rangeId = 1 /\ proc["p2"].rangeId = 1
  /\ ranges[1].consecutivo_actual = 1
  /\ SentReference("p1") = Str(S_SETP \o <<"-", "1">>)
  /\ SentReference("p2") = Str(S_SETP \o <<"-", "1">>)
\* C37: k incrementConsecutive calls on the same range, run concurrently in
\* any interleaving, leave the counter exactly k higher than before: every
\* call that completes leaves the counter one above what it was just
\* before its update, so no increment is lost.
C37_NoIncrementLost ==
  [][\A p \in Procs :
       (proc[p].pc = "inc_write" /\ proc'[p].pc = "inc_done") =>
         ranges'[proc[p].rangeId].consecutivo_actual =
           ranges[proc[p].rangeId].consecutivo_actual + 1]_vars

\* two calls on range 1 both read the counter 1 before either wrote: both
\* have completed and returned 2, and the counter is 2, not 3
C37_TwoCallsOneIncrement ==
  /\ proc["p1"].pc = "inc_done" /\ proc["p2"].pc = "inc_done"
  /\ proc["p1"].rangeId = 1 /\ proc["p2"].rangeId = 1
  /\ proc["p1"].rangeRead = 1 /\ proc["p2"].rangeRead = 1
  /\ proc["p1"].rangeResult = Consecutive(2) /\ proc["p2"].rangeResult = Consecutive(2)
  /\ ranges[1].desde = 1
  /\ ranges[1].consecutivo_actual = 2
\* getRangeStats -- part_006:175-215, for a range that exists
getRangeStats(rs, id) ==
  LET range == rs[id]
      disponibles == range.hasta - range.consecutivo_actual + 1
  IN [total |-> range.hasta - range.desde + 1,
      utilizados |-> range.consecutivo_actual - range.desde,
      disponibles |-> disponibles,
      estado |-> IF disponibles < 100 THEN "CRITICO"
                 ELSE IF disponibles < 500 THEN "ADVERTENCIA"
                 ELSE "OK"]

\* C38: for every active range, getRangeStats reports at least one
\* remaining number (disponibles >= 1) exactly when getActiveRange
\* selecting that range does not raise the exhaustion error.
C38_StatsAgreeWithExhaustion ==
  (rangeLog.called /\ rangeLog.result.kind # "none") =>
    (getRangeStats(ranges, rangeLog.result.id).disponibles >= 1
       <=> rangeLog.result.kind = "range")

\* the range [4,5] stands at 5: getActiveRange has raised the exhaustion
\* error for it while getRangeStats reports one number left
C38_ExhaustedWithOneLeft ==
  /\ rangeLog.called
  /\ rangeLog.result = RangeExhausted(1)
  /\ ranges[1].activo
  /\ ranges[1].hasta = 5 /\ ranges[1].consecutivo_actual = 5
  /\ getRangeStats(ranges, 1).disponibles = 1
(***************************************************************************)
(* sendInvoice and sendCreditNote side by side: p1 runs sendInvoice (the   *)
(* revision setup.sender names), p2 runs sendCreditNote, with the same     *)
(* retries value, and every attempt of both is given the same outcome.     *)
(***************************************************************************)
PairImpl(p) == IF p = "p1" THEN setup.sender ELSE "credit-note"

\* the errors a failed getToken throws into the catch block of the loop
TokenErrors == {handleAuthError(r) : r \in AuthFailures}

\* the loop of implementation impl after one attempt with outcome c --
\* factus-sender.ts:91-275, part_001:90-195, part_000:777-808
AfterAttemptOf(impl, pr, c) ==
  IF c.returns THEN [pr EXCEPT !.pc = "sent", !.sendResult = c.result]
  ELSE IF pr.attempt + 1 <= pr.retries
    THEN [pr EXCEPT !.attempt = pr.attempt + 1, !.lastError = c.error]
  ELSE [pr EXCEPT !.lastError = c.error, !.pc = "sent",
                  !.sendResult = Exhausted(impl, c.error)]

\* both are called with the same retries value
PairCall ==
  /\ \A p \in Procs : proc[p].pc = "idle"
  /\ \E r \in 0..MaxRetries :
       proc' = [p \in Procs |->
                  [IdleProc EXCEPT !.pc = "send_token", !.op = "send", !.retries = r]]
  /\ UNCHANGED <<setup, doc, config, clock, issued, faults, emits, tokenLog, ranges, rangeLog>>

\* the next attempt of each one still in its loop gets the answer o
PairPost ==
  /\ \E p \in Procs : proc[p].pc = "send_token"
  /\ \E o \in SubmitAnswers :
       proc' = [p \in Procs |->
                  IF proc[p].pc = "send_token"
                    THEN AfterAttemptOf(PairImpl(p), SubmitRequest(Sleep(proc[p]), o),
                                        Attempt(PairImpl(p), o))
                  ELSE proc[p]]
  /\ UNCHANGED <<setup, doc, config, clock, issued, faults, emits, tokenLog, ranges, rangeLog>>

\* the next attempt of each one still in its loop fails to get a token
PairTokenFailure ==
  /\ \E p \in Procs : proc[p].pc = "send_token"
  /\ \E e \in TokenErrors :
       proc' = [p \in Procs |->
                  IF proc[p].pc = "send_token"
                    THEN AfterAttemptOf(PairImpl(p), TokenFailed(Sleep(proc[p])),
                                        AttemptTokenFailure(PairImpl(p), e))
                  ELSE proc[p]]
  /\ UNCHANGED <<setup, doc, config, clock, issued, faults, emits, tokenLog, ranges, rangeLog>>

\* both callers have their result
PairReturn ==
  /\ \A p \in Procs : proc[p].pc = "sent"
  /\ proc' = [p \in Procs |-> IdleProc]
  /\ UNCHANGED <<setup, doc, config, clock, issued, faults, emits, tokenLog, ranges, rangeLog>>

InitPair ==
  /\ InitShared
  /\ doc = NoDoc
  /\ setup \in [sender : {"factus-sender", "sender"}, auth : {"auth"},
                 envCreds : {TRUE}, tz : {0}]

NextPair ==
  \/ PairCall
  \/ PairPost
  \/ PairTokenFailure
  \/ PairReturn

SpecPair == InitPair /\ [][NextPair]_vars

\* the status code of a send result: undefined when the result has none
StatusCodeOf(r) == IF r.hasStatus THEN Num(r.statusCode) ELSE Undef

\* C39: sendInvoice and sendCreditNote, given the same retries value and
\* the same outcome for every attempt, make the same number of attempts
\* and return the same success flag and the same status code.
C39_SendersEquivalent ==
  (proc["p1"].pc = "sent" /\ proc["p2"].pc = "sent") =>
    /\ Len(proc["p1"].answers) = Len(proc["p2"].answers)
    /\ proc["p1"].sendResult.success = proc["p2"].sendResult.success
    /\ StatusCodeOf(proc["p1"].sendResult) = StatusCodeOf(proc["p2"].sendResult)

\* with retries 2 and 304 for every attempt, sendInvoice made three
\* attempts and returned no status code, sendCreditNote made one and
\* returned 304
C39_RedirectRetriedByOne ==
  /\ proc["p1"].pc = "sent" /\ proc["p2"].pc = "sent"
  /\ proc["p1"].retries = 2 /\ proc["p2"].retries = 2
  /\ proc["p1"].answers = <<"3xx", "3xx", "3xx">>
  /\ proc["p2"].answers = <<"3xx">>
  /\ ~proc["p1"].sendResult.success /\ ~proc["p2"].sendResult.success
  /\ StatusCodeOf(proc["p1"].sendResult) = Undef
  /\ StatusCodeOf(proc["p2"].sendResult) = Num(304)
\* C40: if a submission of an emission received a 2xx response that holds
\* an extractable identifier, the emission does not leave the document in
\* a failed status, even when the first write of the outcome to the store
\* fails and the error path then writes again.
C40_AcceptedNeverLeftFailed ==
  (EmitDone /\ proc["p1"].sendOk /\ ~NoIdentifier(proc["p1"].sendData)) =>
    doc.estado_local \notin FailedStatuses

\* the invoice was accepted with an identifier, the write recording it
\* threw, the catch block wrote the failure, and the invoice is left
\* rejected without the identifier
C40_AcceptedThenWrittenAsFailed ==
  /\ EmitDone /\ doc.kind = "invoice"
  /\ proc["p1"].sendOk /\ ~NoIdentifier(proc["p1"].sendData)
  /\ proc["p1"].updThrew /\ proc["p1"].nWrites = 1
  /\ proc["p1"].updCtx = "catch" /\ proc["p1"].updStatus = "fallida"
  /\ proc["p1"].start = Num(0)
  /\ doc.estado_local = "Rechazada"
  /\ doc.factus_id = Null
  /\ doc.intentos_envio = Num(1)
====
